---- MODULE Spec2Model ----
(***************************************************************************)
(* cheaptest: run orchestration (ECSBackend.run and runCommand), the       *)
(* durable store (S3) and the compute backend (ECS) it drives.             *)
(***************************************************************************)
EXTENDS Integers, Sequences, FiniteSets, TLC

\* ------------------------------------------------------------------ bounds
\* largest number of shards (= tasks) of a run
MaxShards == 2
\* run-level deadline, counted in poll intervals (timeout / 5000 ms)
TimeoutTicks == 1
\* largest number of discovered test files
MaxFiles == 3
\* largest number of polls of a watch
MaxPolls == 2
MaxExampleFiles == 6
MaxRetryAttempts == 3
MaxRetryDelay == 2
RandomSteps == 4
MaxClockMs == 2

\* ------------------------------------------------------- program constants
\* withRetry maxAttempts used by aggregateResults
MaxAttempts == 5
\* exitCode of a task whose container never reported one (undefined)
NoExit == -1

VARIABLES
  \* ---- durable store (S3 bucket), keys under runs/<runId>/
  s3TestCode,      \* test-code.tar.gz present
  s3Shards,        \* shards.json   [present, shards]
  s3Tasks,         \* tasks.json    [present, taskArns]
  s3Results,       \* results/shard-<id>.json, by shard id
  \* ---- compute backend (ECS)
  ecsTasks,        \* sequence of tasks; a task's ARN is its index
  calls,           \* every store/backend call issued by the CLI, in order
  \* ---- ECSBackend.run / runCommand
  pc,              \* position of the run's control flow
  shards,          \* options.shards (ids of the shard plan)
  taskArns,        \* createTasks: accumulated task ARNs
  i,               \* loop index (createTasks, timeout stop loop, aggregateResults)
  attempt,         \* withRetry: attempt
  elapsed,         \* waitForCompletion: elapsed, in poll intervals
  results,         \* aggregateResults: results
  failedShards,    \* aggregateResults: failedShards
  runError,        \* the error ECSBackend.run threw
  summary,         \* the RunSummary ECSBackend.run returned
  exitCode,        \* process exit status of the run command
  activeAtDeadline, \* ARNs not yet STOPPED when the deadline was detected
  \* ---- TestSharding.createShards
  shFiles,         \* options.files
  shCount,         \* options.shardCount
  shStrategy,      \* options.strategy
  shResult,        \* the ShardingResult returned, or the error thrown
  \* ---- status command (gatherStatus, showStatus)
  stPc,            \* position of the status command
  stShards,        \* gatherStatus: shards (ids of shards.json)
  stResults,       \* gatherStatus: results
  stStoreAtList,   \* the results the store held when they were listed
  stStatuses,      \* StatusData.shardStatuses
  stHasTaskArns,   \* StatusData.hasTaskArns
  stOverall,       \* RunStatus.status
  stExit,          \* process exit status of the status command
  stError,         \* the error gatherStatus threw
  stWatch,         \* options.watch
  stObserved,      \* the overall status each showStatus call returned, in order
  \* ---- cancel command (cancelCommand)
  cnPc,            \* position of the cancel command
  cnForce,         \* options.force
  cnManifest,      \* tasksManifest.taskArns
  cnDescribed,     \* lastStatus of each task of the DescribeTasks response
  cnActive,        \* activeTasks (ARNs)
  cnAlreadyStopped, \* stoppedTasks
  cnIndex,         \* position in the stop loop
  cnStopped,       \* stopped
  cnErrors,        \* errors
  cnExit,          \* process exit status of the cancel command
  \* ---- SIGINT handler of runCommand (ECSBackend.cancel)
  sigPc,           \* position of the handler
  sigArns,         \* cancel: tasksData.taskArns
  sigIndex,        \* cancel: position in the stop loop
  sigCalls,        \* the store/backend calls issued by the handler, in order
  \* ---- withRetry (utils/retry.ts)
  rtPc,            \* position of the call
  rtOpts,          \* opts: maxAttempts, baseDelayMs, maxDelayMs
  rtAttempt,       \* attempt
  rtOutcomes,      \* the outcome of each invocation of fn, in order
  rtLastError,     \* lastError
  rtOnRetry,       \* the arguments of each onRetry call, in order
  rtDelays,        \* the delay of each setTimeout, in order, as a fraction of ms
  rtResult,        \* what the call returned or threw
  \* ---- two run commands on the same bucket (ECSBackend.run, twice)
  isoNow,          \* Date.now(), in ms
  isoRunId,        \* runId of each run
  isoPc,           \* position of each run
  isoShard,        \* the shard whose worker uploads next, for each run
  isoKeys,         \* the store keys written by, or for, each run
  \* ---- worker main (worker/src/index.ts)
  wkPc,            \* position of the worker
  wkCatchesRunner, \* the build in which main catches a rejected runner.run()
  wkShardId,       \* config.shardId
  wkFileCount,     \* shard.files.length
  wkResult,        \* result
  wkRunnerError,   \* runnerError is set
  wkUploads,       \* the results uploaded, with their keys, in order
  wkExit           \* process exit status of the worker

envVars == <<s3TestCode, s3Shards, s3Tasks, s3Results, ecsTasks, calls>>
runVars == <<pc, shards, taskArns, i, attempt, elapsed, results, failedShards,
             runError, summary, exitCode, activeAtDeadline>>
shardingVars == <<shFiles, shCount, shStrategy, shResult>>
statusVars == <<stPc, stShards, stResults, stStoreAtList, stStatuses,
                stHasTaskArns, stOverall, stExit, stError, stWatch, stObserved>>
cancelVars == <<cnPc, cnForce, cnManifest, cnDescribed, cnActive,
                cnAlreadyStopped, cnIndex, cnStopped, cnErrors, cnExit>>
interruptVars == <<sigPc, sigArns, sigIndex, sigCalls>>
retryVars == <<rtPc, rtOpts, rtAttempt, rtOutcomes, rtLastError, rtOnRetry,
               rtDelays, rtResult>>
isolationVars == <<isoNow, isoRunId, isoPc, isoShard, isoKeys>>
workerVars == <<wkPc, wkCatchesRunner, wkShardId, wkFileCount, wkResult,
                wkRunnerError, wkUploads, wkExit>>
vars == <<envVars, runVars, shardingVars, statusVars, cancelVars, interruptVars,
          retryVars, isolationVars, workerVars>>

\* ------------------------------------------------------------------ values
ShardIds(k) == [n \in 1..k |-> n - 1]

Call(op, arg, ok) == [op |-> op, arg |-> arg, ok |-> ok]

Absent == [kind |-> "absent"]

TestResult(s, p, f, sk) ==
  [kind |-> "result", shard |-> s, passed |-> p, failed |-> f, skipped |-> sk]

\* the counts <<passed, failed, skipped>> a worker can report: a shard whose
\* tests all pass, one with a failed and a skipped test
WorkerCounts == {<<1, 0, 0>>, <<2, 1, 1>>}

NoError == [kind |-> "none", got |-> 0, total |-> 0, shards |-> {}]

RunError(kind) == [kind |-> kind, got |-> 0, total |-> 0, shards |-> {}]

\* `Failed to collect all shard results: got ${results.length}/${shards.length}...`
MissingResultsError(got, total) ==
  [kind |-> "MissingResults", got |-> got, total |-> total, shards |-> {}]

NoSummary == [present |-> FALSE, totalTests |-> 0, passed |-> 0, failed |-> 0,
              skipped |-> 0, results |-> <<>>]

RECURSIVE Sum(_)
Sum(s) == IF s = <<>> THEN 0 ELSE Head(s) + Sum(Tail(s))

\* a summary whose total leaves the skipped tests out
RunSummaryWithoutSkipped(rs) ==
  [present |-> TRUE,
   totalTests |-> Sum([k \in 1..Len(rs) |-> rs[k].passed + rs[k].failed]),
   passed |-> Sum([k \in 1..Len(rs) |-> rs[k].passed]),
   failed |-> Sum([k \in 1..Len(rs) |-> rs[k].failed]),
   skipped |-> Sum([k \in 1..Len(rs) |-> rs[k].skipped]),
   results |-> rs]

RunSummary(rs) ==
  [present |-> TRUE,
   totalTests |-> Sum([k \in 1..Len(rs) |-> rs[k].passed + rs[k].failed + rs[k].skipped]),
   passed |-> Sum([k \in 1..Len(rs) |-> rs[k].passed]),
   failed |-> Sum([k \in 1..Len(rs) |-> rs[k].failed]),
   skipped |-> Sum([k \in 1..Len(rs) |-> rs[k].skipped]),
   results |-> rs]

\* ------------------------------------------------------------- environment
Arns == 1..Len(ecsTasks)

\* effect of a StopTaskCommand the backend accepted
StopTask(tasks, a) ==
  IF a \in 1..Len(tasks) /\ tasks[a].lastStatus \notin {"STOPPED", "EXPIRED"}
  THEN [tasks EXCEPT ![a].lastStatus = "STOPPED",
                     ![a].exitCode = IF tasks[a].lastStatus = "PENDING"
                                     THEN NoExit
                                     ELSE IF tasks[a].exitCode = NoExit THEN 1
                                          ELSE tasks[a].exitCode]
  ELSE tasks

\* ECS starts the container of a task
TaskStart(a) ==
  /\ ecsTasks[a].lastStatus = "PENDING"
  /\ ecsTasks' = [ecsTasks EXCEPT ![a].lastStatus = "RUNNING"]
  /\ UNCHANGED <<s3TestCode, s3Shards, s3Tasks, s3Results, calls>>

\* worker main: uploads the result of its shard (runs/<runId>/results/shard-<id>.json)
WorkerUpload(a) ==
  /\ ecsTasks[a].lastStatus = "RUNNING"
  /\ s3Shards.present
  /\ s3Results[ecsTasks[a].shard] = Absent
  /\ \E c \in WorkerCounts :
       s3Results' = [s3Results EXCEPT ![ecsTasks[a].shard] =
                        TestResult(ecsTasks[a].shard, c[1], c[2], c[3])]
  /\ UNCHANGED <<s3TestCode, s3Shards, s3Tasks, ecsTasks, calls>>

\* worker main: process.exit(exitCode); exit 0 only after uploading a result
\* without failures
WorkerExit(a) ==
  /\ ecsTasks[a].lastStatus = "RUNNING"
  /\ \E code \in {0, 1} :
       /\ code = 0 => /\ s3Results[ecsTasks[a].shard] # Absent
                      /\ s3Results[ecsTasks[a].shard].failed = 0
       /\ ecsTasks' = [ecsTasks EXCEPT ![a].lastStatus = "DEPROVISIONING",
                                       ![a].exitCode = code]
  /\ UNCHANGED <<s3TestCode, s3Shards, s3Tasks, s3Results, calls>>

\* ECS releases the resources of an exited task
TaskStopped(a) ==
  /\ ecsTasks[a].lastStatus = "DEPROVISIONING"
  /\ ecsTasks' = [ecsTasks EXCEPT ![a].lastStatus = "STOPPED"]
  /\ UNCHANGED <<s3TestCode, s3Shards, s3Tasks, s3Results, calls>>

\* ECS forgets a task some time after it stopped: DescribeTasks no longer
\* returns it
TaskExpire(a) ==
  /\ ecsTasks[a].lastStatus = "STOPPED"
  /\ ecsTasks' = [ecsTasks EXCEPT ![a].lastStatus = "EXPIRED"]
  /\ UNCHANGED <<s3TestCode, s3Shards, s3Tasks, s3Results, calls>>

\* response.tasks of a DescribeTasksCommand for arns
DescribedTasks(arns) ==
  SelectSeq(arns, LAMBDA a : a \in Arns /\ ecsTasks[a].lastStatus # "EXPIRED")

\* ------------------------------------------------------- ECSBackend.run
Throw(err) ==
  /\ pc' = "threw"
  /\ runError' = err

\* Step 0: ensureBucketExists
EnsureBucket ==
  /\ pc = "ensureBucket"
  /\ \E ok \in BOOLEAN :
       /\ calls' = Append(calls, Call("ensureBucketExists", 0, ok))
       /\ IF ok THEN pc' = "uploadTestCode" /\ UNCHANGED runError
                ELSE Throw(RunError("StoreError"))
  /\ UNCHANGED <<s3TestCode, s3Shards, s3Tasks, s3Results, ecsTasks>>
  /\ UNCHANGED <<shards, taskArns, i, attempt, elapsed, results, failedShards,
                 summary, exitCode, activeAtDeadline>>
  /\ UNCHANGED <<shardingVars, statusVars, cancelVars, interruptVars, retryVars, isolationVars, workerVars>>

\* an upload failure that is logged and the run goes on
UploadTestCodeKeepGoing ==
  /\ pc = "uploadTestCode"
  /\ \E ok \in BOOLEAN :
       /\ calls' = Append(calls, Call("uploadDirectory", 0, ok))
       /\ s3TestCode' = ok
       /\ pc' = "uploadShards"
       /\ UNCHANGED runError
  /\ UNCHANGED <<s3Shards, s3Tasks, s3Results, ecsTasks>>
  /\ UNCHANGED <<shards, taskArns, i, attempt, elapsed, results, failedShards,
                 summary, exitCode, activeAtDeadline>>
  /\ UNCHANGED <<shardingVars, statusVars, cancelVars, interruptVars, retryVars, isolationVars, workerVars>>

\* Step 1: uploadTestCode
UploadTestCode ==
  /\ pc = "uploadTestCode"
  /\ \E ok \in BOOLEAN :
       /\ calls' = Append(calls, Call("uploadDirectory", 0, ok))
       /\ IF ok THEN /\ s3TestCode' = TRUE
                     /\ pc' = "uploadShards"
                     /\ UNCHANGED runError
                ELSE /\ Throw(RunError("StoreError"))
                     /\ UNCHANGED s3TestCode
  /\ UNCHANGED <<s3Shards, s3Tasks, s3Results, ecsTasks>>
  /\ UNCHANGED <<shards, taskArns, i, attempt, elapsed, results, failedShards,
                 summary, exitCode, activeAtDeadline>>
  /\ UNCHANGED <<shardingVars, statusVars, cancelVars, interruptVars, retryVars, isolationVars, workerVars>>

\* Step 2: uploadShards, a failed upload is rethrown
UploadShardsKeepGoing ==
  /\ pc = "uploadShards"
  /\ \E ok \in BOOLEAN :
       /\ calls' = Append(calls, Call("uploadShards", 0, ok))
       /\ IF ok THEN s3Shards' = [present |-> TRUE, shards |-> shards]
                ELSE UNCHANGED s3Shards
       /\ pc' = "createTasks"
       /\ i' = 0
       /\ UNCHANGED runError
  /\ UNCHANGED <<s3TestCode, s3Tasks, s3Results, ecsTasks>>
  /\ UNCHANGED <<shards, taskArns, attempt, elapsed, results, failedShards,
                 summary, exitCode, activeAtDeadline>>
  /\ UNCHANGED <<shardingVars, statusVars, cancelVars, interruptVars, retryVars, isolationVars, workerVars>>

UploadShards ==
  /\ pc = "uploadShards"
  /\ \E ok \in BOOLEAN :
       /\ calls' = Append(calls, Call("uploadShards", 0, ok))
       /\ IF ok THEN /\ s3Shards' = [present |-> TRUE, shards |-> shards]
                     /\ pc' = "createTasks"
                     /\ i' = 0
                     /\ UNCHANGED runError
                ELSE /\ Throw(RunError("StoreError"))
                     /\ UNCHANGED <<s3Shards, i>>
  /\ UNCHANGED <<s3TestCode, s3Tasks, s3Results, ecsTasks>>
  /\ UNCHANGED <<shards, taskArns, attempt, elapsed, results, failedShards,
                 summary, exitCode, activeAtDeadline>>
  /\ UNCHANGED <<shardingVars, statusVars, cancelVars, interruptVars, retryVars, isolationVars, workerVars>>

\* a launch loop walking the shard plan from its last shard
RunTaskDescending ==
  /\ pc = "createTasks"
  /\ \E ok \in BOOLEAN :
       /\ calls' = Append(calls, Call("RunTask", shards[Len(shards) - i], ok))
       /\ IF ok THEN /\ ecsTasks' = Append(ecsTasks,
                          [shard |-> shards[Len(shards) - i],
                           lastStatus |-> "PENDING", exitCode |-> NoExit])
                     /\ taskArns' = Append(taskArns, Len(ecsTasks) + 1)
                     /\ i' = i + 1
                     /\ pc' = IF i + 1 < Len(shards) THEN "createTasks"
                                                     ELSE "persistTasks"
                     /\ UNCHANGED runError
                ELSE /\ Throw(RunError("LaunchError"))
                     /\ UNCHANGED <<ecsTasks, taskArns, i>>
  /\ UNCHANGED <<s3TestCode, s3Shards, s3Tasks, s3Results>>
  /\ UNCHANGED <<shards, attempt, elapsed, results, failedShards,
                 summary, exitCode, activeAtDeadline>>
  /\ UNCHANGED <<shardingVars, statusVars, cancelVars, interruptVars, retryVars, isolationVars, workerVars>>

\* Step 3: createTasks, one loop iteration (one RunTaskCommand); an empty
\* response or a rejected call throws out of the loop
RunTask ==
  /\ pc = "createTasks"
  /\ \E ok \in BOOLEAN :
       /\ calls' = Append(calls, Call("RunTask", shards[i + 1], ok))
       /\ IF ok THEN /\ ecsTasks' = Append(ecsTasks,
                          [shard |-> shards[i + 1], lastStatus |-> "PENDING",
                           exitCode |-> NoExit])
                     /\ taskArns' = Append(taskArns, Len(ecsTasks) + 1)
                     /\ i' = i + 1
                     /\ pc' = IF i + 1 < Len(shards) THEN "createTasks"
                                                     ELSE "persistTasks"
                     /\ UNCHANGED runError
                ELSE /\ Throw(RunError("LaunchError"))
                     /\ UNCHANGED <<ecsTasks, taskArns, i>>
  /\ UNCHANGED <<s3TestCode, s3Shards, s3Tasks, s3Results>>
  /\ UNCHANGED <<shards, attempt, elapsed, results, failedShards,
                 summary, exitCode, activeAtDeadline>>
  /\ UNCHANGED <<shardingVars, statusVars, cancelVars, interruptVars, retryVars, isolationVars, workerVars>>

\* a persist step whose failure is rethrown by createTasks
PersistTasksFatal ==
  /\ pc = "persistTasks"
  /\ \E ok \in BOOLEAN :
       /\ calls' = Append(calls, Call("uploadTasks", 0, ok))
       /\ IF ok THEN /\ s3Tasks' = [present |-> TRUE, taskArns |-> taskArns]
                     /\ pc' = "poll"
                     /\ UNCHANGED runError
                ELSE /\ Throw(RunError("PersistError"))
                     /\ UNCHANGED s3Tasks
  /\ elapsed' = 0
  /\ UNCHANGED <<s3TestCode, s3Shards, s3Results, ecsTasks>>
  /\ UNCHANGED <<shards, taskArns, i, attempt, results, failedShards,
                 summary, exitCode, activeAtDeadline>>
  /\ UNCHANGED <<shardingVars, statusVars, cancelVars, interruptVars, retryVars, isolationVars, workerVars>>

\* a persist step that writes the task ARNs without the last launched one
PersistTasksDroppingLast ==
  /\ pc = "persistTasks"
  /\ \E ok \in BOOLEAN :
       /\ calls' = Append(calls, Call("uploadTasks", 0, ok))
       /\ IF ok THEN s3Tasks' = [present |-> TRUE,
                                 taskArns |-> SubSeq(taskArns, 1, Len(taskArns) - 1)]
                ELSE UNCHANGED s3Tasks
  /\ pc' = "poll"
  /\ elapsed' = 0
  /\ UNCHANGED <<s3TestCode, s3Shards, s3Results, ecsTasks>>
  /\ UNCHANGED <<shards, taskArns, i, attempt, results, failedShards,
                 runError, summary, exitCode, activeAtDeadline>>
  /\ UNCHANGED <<shardingVars, statusVars, cancelVars, interruptVars, retryVars, isolationVars, workerVars>>

\* createTasks: persist tasks.json, a failure is swallowed; then
\* waitForCompletion starts its clock
PersistTasks ==
  /\ pc = "persistTasks"
  /\ \E ok \in BOOLEAN :
       /\ calls' = Append(calls, Call("uploadTasks", 0, ok))
       /\ IF ok THEN s3Tasks' = [present |-> TRUE, taskArns |-> taskArns]
                ELSE UNCHANGED s3Tasks
  /\ pc' = "poll"
  /\ elapsed' = 0
  /\ UNCHANGED <<s3TestCode, s3Shards, s3Results, ecsTasks>>
  /\ UNCHANGED <<shards, taskArns, i, attempt, results, failedShards,
                 runError, summary, exitCode, activeAtDeadline>>
  /\ UNCHANGED <<shardingVars, statusVars, cancelVars, interruptVars, retryVars, isolationVars, workerVars>>

\* waitForCompletion: stopped = tasks.filter(t => t.lastStatus === 'STOPPED').length
StoppedCount(tasks, arns) ==
  Cardinality({k \in 1..Len(arns) : tasks[arns[k]].lastStatus = "STOPPED"})

\* a loop without the deadline check
PollTimeoutIgnored ==
  /\ pc = "poll"
  /\ elapsed > TimeoutTicks
  /\ UNCHANGED vars

\* waitForCompletion: elapsed > timeout, enter the stop loop
PollTimeout ==
  /\ pc = "poll"
  /\ elapsed > TimeoutTicks
  /\ pc' = "timeoutStop"
  /\ i' = 0
  /\ activeAtDeadline' = {taskArns[k] : k \in
                            {n \in 1..Len(taskArns) :
                               ecsTasks[taskArns[n]].lastStatus # "STOPPED"}}
  /\ UNCHANGED envVars
  /\ UNCHANGED <<shards, taskArns, attempt, elapsed, results, failedShards,
                 runError, summary, exitCode>>
  /\ UNCHANGED <<shardingVars, statusVars, cancelVars, interruptVars, retryVars, isolationVars, workerVars>>

\* a stop loop that a rejected StopTaskCommand ends
TimeoutStopAbortOnError ==
  /\ pc = "timeoutStop"
  /\ \E ok \in BOOLEAN :
       /\ calls' = Append(calls, Call("StopTask", taskArns[i + 1], ok))
       /\ ecsTasks' = IF ok THEN StopTask(ecsTasks, taskArns[i + 1]) ELSE ecsTasks
       /\ IF ok /\ i + 1 < Len(taskArns) THEN UNCHANGED <<pc, runError>>
                                         ELSE Throw(RunError("Timeout"))
  /\ i' = i + 1
  /\ UNCHANGED <<s3TestCode, s3Shards, s3Tasks, s3Results>>
  /\ UNCHANGED <<shards, taskArns, attempt, elapsed, results, failedShards,
                 summary, exitCode, activeAtDeadline>>
  /\ UNCHANGED <<shardingVars, statusVars, cancelVars, interruptVars, retryVars, isolationVars, workerVars>>

\* waitForCompletion, timeout branch: one StopTaskCommand of the loop over
\* taskArns (a rejected call is swallowed); after the last one, throw
TimeoutStop ==
  /\ pc = "timeoutStop"
  /\ \E ok \in BOOLEAN :
       /\ calls' = Append(calls, Call("StopTask", taskArns[i + 1], ok))
       /\ ecsTasks' = IF ok THEN StopTask(ecsTasks, taskArns[i + 1]) ELSE ecsTasks
  /\ i' = i + 1
  /\ IF i + 1 < Len(taskArns) THEN UNCHANGED <<pc, runError>>
                              ELSE Throw(RunError("Timeout"))
  /\ UNCHANGED <<s3TestCode, s3Shards, s3Tasks, s3Results>>
  /\ UNCHANGED <<shards, taskArns, attempt, elapsed, results, failedShards,
                 summary, exitCode, activeAtDeadline>>
  /\ UNCHANGED <<shardingVars, statusVars, cancelVars, interruptVars, retryVars, isolationVars, workerVars>>

\* a variant that throws when a stopped task exited non-zero
PollDescribeThrowOnFailedTask ==
  /\ pc = "poll"
  /\ elapsed <= TimeoutTicks
  /\ \E ok \in BOOLEAN :
       /\ calls' = Append(calls,
            Call("DescribeTasks", StoppedCount(ecsTasks, taskArns), ok))
       /\ IF ~ok THEN Throw(RunError("BackendError")) /\ UNCHANGED <<elapsed, i, attempt>>
          ELSE IF StoppedCount(ecsTasks, taskArns) = Len(taskArns)
               THEN IF \E k \in 1..Len(taskArns) :
                         ecsTasks[taskArns[k]].exitCode \notin {NoExit, 0}
                    THEN Throw(RunError("TaskFailed")) /\ UNCHANGED <<elapsed, i, attempt>>
                    ELSE /\ pc' = "aggregate"
                         /\ i' = 0
                         /\ attempt' = 0
                         /\ UNCHANGED <<elapsed, runError>>
               ELSE /\ elapsed' = elapsed + 1
                    /\ UNCHANGED <<pc, i, attempt, runError>>
  /\ UNCHANGED <<s3TestCode, s3Shards, s3Tasks, s3Results, ecsTasks>>
  /\ UNCHANGED <<shards, taskArns, results, failedShards,
                 summary, exitCode, activeAtDeadline>>
  /\ UNCHANGED <<shardingVars, statusVars, cancelVars, interruptVars, retryVars, isolationVars, workerVars>>

\* a variant that returns as soon as no described task is RUNNING
PollDescribeReturnWhenNoneRunning ==
  /\ pc = "poll"
  /\ elapsed <= TimeoutTicks
  /\ \E ok \in BOOLEAN :
       /\ calls' = Append(calls,
            Call("DescribeTasks", StoppedCount(ecsTasks, taskArns), ok))
       /\ IF ~ok THEN Throw(RunError("BackendError")) /\ UNCHANGED <<elapsed, i, attempt>>
          ELSE IF \A k \in 1..Len(taskArns) : ecsTasks[taskArns[k]].lastStatus # "RUNNING"
               THEN /\ pc' = "aggregate"
                    /\ i' = 0
                    /\ attempt' = 0
                    /\ UNCHANGED <<elapsed, runError>>
               ELSE /\ elapsed' = elapsed + 1
                    /\ UNCHANGED <<pc, i, attempt, runError>>
  /\ UNCHANGED <<s3TestCode, s3Shards, s3Tasks, s3Results, ecsTasks>>
  /\ UNCHANGED <<shards, taskArns, results, failedShards,
                 summary, exitCode, activeAtDeadline>>
  /\ UNCHANGED <<shardingVars, statusVars, cancelVars, interruptVars, retryVars, isolationVars, workerVars>>

\* waitForCompletion: one DescribeTasksCommand; all stopped returns (whatever
\* the exit codes), otherwise sleep one poll interval
PollDescribe ==
  /\ pc = "poll"
  /\ elapsed <= TimeoutTicks
  /\ \E ok \in BOOLEAN :
       /\ calls' = Append(calls,
            Call("DescribeTasks", StoppedCount(ecsTasks, taskArns), ok))
       /\ IF ~ok THEN Throw(RunError("BackendError")) /\ UNCHANGED <<elapsed, i, attempt>>
          ELSE IF StoppedCount(ecsTasks, taskArns) = Len(taskArns)
               THEN /\ pc' = "aggregate"
                    /\ i' = 0
                    /\ attempt' = 0
                    /\ UNCHANGED <<elapsed, runError>>
               ELSE /\ elapsed' = elapsed + 1
                    /\ UNCHANGED <<pc, i, attempt, runError>>
  /\ UNCHANGED <<s3TestCode, s3Shards, s3Tasks, s3Results, ecsTasks>>
  /\ UNCHANGED <<shards, taskArns, results, failedShards,
                 summary, exitCode, activeAtDeadline>>
  /\ UNCHANGED <<shardingVars, statusVars, cancelVars, interruptVars, retryVars, isolationVars, workerVars>>

\* aggregateResults: one attempt of withRetry(downloadJSON(shard-<i>.json));
\* an attempt on an absent object fails, one on a present object may fail
\* transiently
FetchResult ==
  /\ pc = "aggregate"
  /\ \E ok \in (IF s3Results[i] = Absent THEN {FALSE} ELSE BOOLEAN) :
       /\ calls' = Append(calls, Call("downloadResult", i, ok))
       /\ IF ok
          THEN /\ results' = Append(results, s3Results[i])
               /\ UNCHANGED failedShards
               /\ i' = i + 1
               /\ attempt' = 0
               /\ pc' = IF i + 1 < Len(shards) THEN "aggregate" ELSE "checkResults"
          ELSE IF attempt < MaxAttempts - 1
               THEN /\ attempt' = attempt + 1
                    /\ UNCHANGED <<results, failedShards, i, pc>>
               ELSE /\ failedShards' = Append(failedShards, i)
                    /\ UNCHANGED results
                    /\ i' = i + 1
                    /\ attempt' = 0
                    /\ pc' = IF i + 1 < Len(shards) THEN "aggregate" ELSE "checkResults"
  /\ UNCHANGED <<s3TestCode, s3Shards, s3Tasks, s3Results, ecsTasks>>
  /\ UNCHANGED <<shards, taskArns, elapsed, runError, summary, exitCode,
                 activeAtDeadline>>
  /\ UNCHANGED <<shardingVars, statusVars, cancelVars, interruptVars, retryVars, isolationVars, workerVars>>

\* run: "Check if we got all results", then the summary
RunCheckResults ==
  /\ pc = "checkResults"
  /\ IF Len(results) < Len(shards)
     THEN /\ Throw(MissingResultsError(Len(results), Len(shards)))
          /\ UNCHANGED summary
     ELSE /\ summary' = RunSummary(results)
          /\ pc' = "returned"
          /\ UNCHANGED runError
  /\ UNCHANGED envVars
  /\ UNCHANGED <<shards, taskArns, i, attempt, elapsed, results, failedShards,
                 exitCode, activeAtDeadline>>
  /\ UNCHANGED <<shardingVars, statusVars, cancelVars, interruptVars, retryVars, isolationVars, workerVars>>

\* ----------------------------------------------------------- runCommand
ExitStatusIgnoreFailures(s) == 0

\* 13. EXIT WITH APPROPRIATE CODE
ExitStatus(s) == IF s.failed > 0 THEN 1 ELSE 0

RunCommandExit ==
  /\ pc = "returned"
  /\ exitCode' = ExitStatus(summary)
  /\ pc' = "exited"
  /\ UNCHANGED envVars
  /\ UNCHANGED <<shards, taskArns, i, attempt, elapsed, results, failedShards,
                 runError, summary, activeAtDeadline>>
  /\ UNCHANGED <<shardingVars, statusVars, cancelVars, interruptVars, retryVars, isolationVars, workerVars>>

\* catch around backend.run: process.exit(1)
RunCommandCatch ==
  /\ pc = "threw"
  /\ exitCode' = 1
  /\ pc' = "exited"
  /\ UNCHANGED envVars
  /\ UNCHANGED <<shards, taskArns, i, attempt, elapsed, results, failedShards,
                 runError, summary, activeAtDeadline>>
  /\ UNCHANGED <<shardingVars, statusVars, cancelVars, interruptVars, retryVars, isolationVars, workerVars>>

\* ------------------------------------------------------- initial values
EnvInit ==
  /\ s3TestCode = FALSE
  /\ s3Shards = [present |-> FALSE, shards |-> <<>>]
  /\ s3Tasks = [present |-> FALSE, taskArns |-> <<>>]
  /\ s3Results = [s \in 0..(MaxShards - 1) |-> Absent]
  /\ ecsTasks = <<>>
  /\ calls = <<>>

RunIdle ==
  /\ taskArns = <<>>
  /\ i = 0
  /\ attempt = 0
  /\ elapsed = 0
  /\ results = <<>>
  /\ failedShards = <<>>
  /\ runError = NoError
  /\ summary = NoSummary
  /\ exitCode = NoExit
  /\ activeAtDeadline = {}

StatusIdle ==
  /\ stPc = "idle"
  /\ stShards = <<>>
  /\ stResults = <<>>
  /\ stStoreAtList = <<>>
  /\ stStatuses = <<>>
  /\ stHasTaskArns = FALSE
  /\ stOverall = "none"
  /\ stExit = NoExit
  /\ stError = "none"
  /\ stWatch = FALSE
  /\ stObserved = <<>>

CancelIdle ==
  /\ cnPc = "idle"
  /\ cnForce = FALSE
  /\ cnManifest = <<>>
  /\ cnDescribed = <<>>
  /\ cnActive = <<>>
  /\ cnAlreadyStopped = 0
  /\ cnIndex = 0
  /\ cnStopped = 0
  /\ cnErrors = 0
  /\ cnExit = NoExit

InterruptIdle ==
  /\ sigPc = "none"
  /\ sigArns = <<>>
  /\ sigIndex = 0
  /\ sigCalls = <<>>

\* runId before ECSBackend.run assigned it
NoRunId == -1

Runs == {1, 2}

\* neither run command has started
IsolationIdle ==
  /\ isoNow = 0
  /\ isoRunId = [p \in Runs |-> NoRunId]
  /\ isoPc = [p \in Runs |-> "idle"]
  /\ isoShard = [p \in Runs |-> 0]
  /\ isoKeys = [p \in Runs |-> {}]

NoWorkerResult == [kind |-> "none"]

\* no worker process
WorkerIdle ==
  /\ wkPc = "idle"
  /\ wkCatchesRunner = FALSE
  /\ wkShardId = 0
  /\ wkFileCount = 0
  /\ wkResult = NoWorkerResult
  /\ wkRunnerError = FALSE
  /\ wkUploads = <<>>
  /\ wkExit = NoExit

\* lastError before any attempt failed (undefined)
NoLastError == 0

NoRetryResult == [kind |-> "none", value |-> 0]

\* no call of withRetry
RetryIdle ==
  /\ rtPc = "idle"
  /\ rtOpts = [maxAttempts |-> 0, baseDelayMs |-> 0, maxDelayMs |-> 0]
  /\ rtAttempt = 0
  /\ rtOutcomes = <<>>
  /\ rtLastError = NoLastError
  /\ rtOnRetry = <<>>
  /\ rtDelays = <<>>
  /\ rtResult = NoRetryResult

RunOff ==
  /\ pc = "idle"
  /\ shards = <<>>
  /\ RunIdle
  /\ InterruptIdle
  /\ RetryIdle
  /\ IsolationIdle
  /\ WorkerIdle

\* the store and the backend as a status or cancel command can find them:
\* an unknown run id, or a run whose K tasks were launched, with or without
\* tasks.json
ObservedInit ==
  /\ calls = <<>>
  /\ s3Results = [s \in 0..(MaxShards - 1) |-> Absent]
  /\ \E k \in 0..MaxShards :
       /\ s3TestCode = (k > 0)
       /\ s3Shards = [present |-> k > 0, shards |-> ShardIds(k)]
       /\ ecsTasks = [n \in 1..k |->
                        [shard |-> n - 1, lastStatus |-> "PENDING", exitCode |-> NoExit]]
       /\ \E persisted \in {b \in BOOLEAN : b => k > 0} :
            s3Tasks = [present |-> persisted,
                       taskArns |-> IF persisted THEN [n \in 1..k |-> n] ELSE <<>>]

\* ------------------------------------------------ TestSharding (sharding.ts)
\* estimatedDuration of a TestFile that carries no estimate (undefined)
NoDuration == -1

Sizes == {0, 1, 2}

Durations == {NoDuration, 0, 1, 2}

Strategies == {"round-robin", "balanced", "duration-based"}

TestFile(id, size, duration) ==
  [id |-> id, size |-> size, estimatedDuration |-> duration]

\* file.estimatedDuration || 0
DurationOrZero(f) ==
  IF f.estimatedDuration = NoDuration THEN 0 ELSE f.estimatedDuration

\* shards numbered from 1
EmptyShardsFromOne(shardCount) ==
  [n \in 1..shardCount |->
     [id |-> n, files |-> <<>>, estimatedDuration |-> 0, totalSize |-> 0]]

\* Array.from({ length: shardCount }, (_, i) => ({ id: i, files: [], ... }))
EmptyShards(shardCount) ==
  [n \in 1..shardCount |->
     [id |-> n - 1, files |-> <<>>, estimatedDuration |-> 0, totalSize |-> 0]]

\* an assignment that replaces the shard's files
AssignReplacing(sh, n, f) ==
  [sh EXCEPT ![n] = [id |-> @.id,
                     files |-> <<f>>,
                     estimatedDuration |-> @.estimatedDuration + DurationOrZero(f),
                     totalSize |-> @.totalSize + f.size]]

\* shard.files.push(file); shard.estimatedDuration += ...; shard.totalSize += file.size
Assign(sh, n, f) ==
  [sh EXCEPT ![n] = [id |-> @.id,
                     files |-> Append(@.files, f),
                     estimatedDuration |-> @.estimatedDuration + DurationOrZero(f),
                     totalSize |-> @.totalSize + f.size]]

RECURSIVE RoundRobinLoop(_, _, _)
RoundRobinLoop(sh, files, index) ==
  IF index >= Len(files) THEN sh
  ELSE RoundRobinLoop(Assign(sh, (index % Len(sh)) + 1, files[index + 1]),
                      files, index + 1)

RECURSIVE BlockLoop(_, _, _)
BlockLoop(sh, files, index) ==
  IF index >= Len(files) THEN sh
  ELSE BlockLoop(Assign(sh, (index \div ((Len(files) + Len(sh) - 1) \div Len(sh))) + 1,
                        files[index + 1]),
                 files, index + 1)

\* consecutive files kept together: shard = index div ceil(n / shardCount)
roundRobinShardingInBlocks(files, shardCount) ==
  BlockLoop(EmptyShards(shardCount), files, 0)

\* files.forEach((file, index) => shards[index % shardCount] ...)
roundRobinSharding(files, shardCount) ==
  RoundRobinLoop(EmptyShards(shardCount), files, 0)

SortKey(f, by) == IF by = "size" THEN f.size ELSE DurationOrZero(f)

\* position of files[k] after [...files].sort((a, b) => key(b) - key(a));
\* Array.prototype.sort is stable
SortedPosition(files, by, k) ==
  Cardinality({j \in 1..Len(files) : SortKey(files[j], by) > SortKey(files[k], by)})
  + Cardinality({j \in 1..(k - 1) : SortKey(files[j], by) = SortKey(files[k], by)})
  + 1

SortDescending(files, by) ==
  [r \in 1..Len(files) |->
     files[CHOOSE k \in 1..Len(files) : SortedPosition(files, by, k) = r]]

ShardLoad(shard, by) ==
  IF by = "size" THEN shard.totalSize ELSE shard.estimatedDuration

\* a reduce whose comparison lets a later shard win a tie
RECURSIVE ReduceLightestLastOnTie(_, _, _, _)
ReduceLightestLastOnTie(sh, by, n, min) ==
  IF n > Len(sh) THEN min
  ELSE ReduceLightestLastOnTie(sh, by, n + 1,
         IF ShardLoad(sh[n], by) <= ShardLoad(sh[min], by) THEN n ELSE min)

\* shards.reduce((min, shard) => load(shard) < load(min) ? shard : min)
RECURSIVE ReduceLightest(_, _, _, _)
ReduceLightest(sh, by, n, min) ==
  IF n > Len(sh) THEN min
  ELSE ReduceLightest(sh, by, n + 1,
         IF ShardLoad(sh[n], by) < ShardLoad(sh[min], by) THEN n ELSE min)

RECURSIVE GreedyLoop(_, _, _, _)
GreedyLoop(sh, sortedFiles, by, index) ==
  IF index > Len(sortedFiles) THEN sh
  ELSE GreedyLoop(Assign(sh, ReduceLightest(sh, by, 2, 1), sortedFiles[index]),
                  sortedFiles, by, index + 1)

balancedSharding(files, shardCount) ==
  GreedyLoop(EmptyShards(shardCount), SortDescending(files, "size"), "size", 1)

\* a greedy loop that still compares and sorts by size
durationBasedShardingBySize(files, shardCount) ==
  GreedyLoop(EmptyShards(shardCount), SortDescending(files, "size"), "size", 1)

\* no fallback to balancedSharding when no file carries an estimate
durationBasedShardingWithoutFallback(files, shardCount) ==
  GreedyLoop(EmptyShards(shardCount), SortDescending(files, "duration"),
             "duration", 1)

durationBasedSharding(files, shardCount) ==
  IF \A k \in 1..Len(files) : files[k].estimatedDuration = NoDuration
  THEN balancedSharding(files, shardCount)
  ELSE GreedyLoop(EmptyShards(shardCount), SortDescending(files, "duration"),
                  "duration", 1)

SeqMax(q) == CHOOSE x \in {q[k] : k \in 1..Len(q)} : \A k \in 1..Len(q) : q[k] <= x

SeqMin(q) == CHOOSE x \in {q[k] : k \in 1..Len(q)} : \A k \in 1..Len(q) : x <= q[k]

\* a score that takes shards without durations for perfectly balanced
calculateBalanceScoreWithoutCounts(sh) ==
  IF Len(sh) = 0 THEN <<1, 1>>
  ELSE LET durations == [k \in 1..Len(sh) |-> sh[k].estimatedDuration]
       IN IF SeqMax(durations) = 0 THEN <<1, 1>>
          ELSE <<SeqMin(durations), SeqMax(durations)>>

\* the score as the fraction <<numerator, denominator>>
calculateBalanceScore(sh) ==
  IF Len(sh) = 0 THEN <<1, 1>>
  ELSE LET durations == [k \in 1..Len(sh) |-> sh[k].estimatedDuration]
           counts == [k \in 1..Len(sh) |-> Len(sh[k].files)]
       IN IF SeqMax(durations) = 0
          THEN IF SeqMax(counts) = 0 THEN <<1, 1>>
               ELSE <<SeqMin(counts), SeqMax(counts)>>
          ELSE <<SeqMin(durations), SeqMax(durations)>>

ShardingError(message) ==
  [error |-> message, shards |-> <<>>, totalShards |-> 0, balanceScore |-> <<1, 1>>]

\* validation without the check of the file list
createShardsAcceptingEmptyList(files, shardCount, strategy) ==
  IF shardCount < 1 THEN ShardingError("Shard count must be at least 1")
  ELSE LET actualShardCount == IF shardCount < Len(files) THEN shardCount ELSE Len(files)
           sh == IF strategy = "round-robin"
                 THEN RoundRobinLoop(EmptyShards(actualShardCount), files, 0)
                 ELSE EmptyShards(actualShardCount)
       IN [error |-> "none", shards |-> sh, totalShards |-> actualShardCount,
           balanceScore |-> calculateBalanceScore(sh)]

createShards(files, shardCount, strategy) ==
  IF shardCount < 1 THEN ShardingError("Shard count must be at least 1")
  ELSE IF Len(files) = 0 THEN ShardingError("Cannot create shards from empty file list")
  ELSE LET actualShardCount == IF shardCount < Len(files) THEN shardCount ELSE Len(files)
           sh == CASE strategy = "round-robin" -> roundRobinSharding(files, actualShardCount)
                   [] strategy = "balanced" -> balancedSharding(files, actualShardCount)
                   [] strategy = "duration-based" -> durationBasedSharding(files, actualShardCount)
       IN [error |-> "none", shards |-> sh, totalShards |-> actualShardCount,
           balanceScore |-> calculateBalanceScore(sh)]

NotSharded == ShardingError("not called")

ShardingIdle ==
  /\ shFiles = <<>>
  /\ shCount = 0
  /\ shStrategy = "none"
  /\ shResult = NotSharded

\* one call of createShards on a discovered file list
CreateShards ==
  /\ shResult = NotSharded
  /\ \E k \in (-1)..(MaxShards + 1), strategy \in Strategies :
       /\ shCount' = k
       /\ shStrategy' = strategy
       /\ shResult' = createShards(shFiles, k, strategy)
  /\ UNCHANGED shFiles
  /\ UNCHANGED <<envVars, runVars, statusVars, cancelVars, interruptVars, retryVars, isolationVars, workerVars>>

ShardingInit ==
  /\ EnvInit
  /\ pc = "idle"
  /\ shards = <<>>
  /\ RunIdle
  /\ \E n \in 0..MaxFiles :
       \E attrs \in [1..n -> Sizes \X Durations] :
          shFiles = [k \in 1..n |-> TestFile(k, attrs[k][1], attrs[k][2])]
  /\ shCount = 0
  /\ shStrategy = "none"
  /\ shResult = NotSharded
  /\ StatusIdle
  /\ CancelIdle
  /\ InterruptIdle
  /\ RetryIdle
  /\ IsolationIdle
  /\ WorkerIdle

ShardingNext == CreateShards

SpecSharding == ShardingInit /\ [][ShardingNext]_vars

\* longer file lists of equal size whose duration estimates spread over a
\* decade, as in the duration-based tests (1000 .. 10000 ms, in seconds here)
ExampleDurations == {1, 2, 5, 10}

ExampleInit ==
  /\ EnvInit
  /\ RunOff
  /\ \E n \in 0..MaxExampleFiles :
       \E estimates \in [1..n -> ExampleDurations] :
          shFiles = [k \in 1..n |-> TestFile(k, 1, estimates[k])]
  /\ shCount = 0
  /\ shStrategy = "none"
  /\ shResult = NotSharded
  /\ StatusIdle
  /\ CancelIdle

SpecExample == ExampleInit /\ [][ShardingNext]_vars

\* ------------------------------------------------ status command (status.ts)
mapEcsStatus(ecsStatus) ==
  CASE ecsStatus \in {"PROVISIONING", "PENDING"} -> "pending"
    [] ecsStatus \in {"ACTIVATING", "RUNNING"} -> "running"
    [] ecsStatus \in {"DEACTIVATING", "STOPPING", "DEPROVISIONING", "STOPPED"} -> "stopped"
    [] OTHER -> "unknown"

\* ecsTaskStates: shard id -> { status, exitCode }, from the CheaptestShard tag
\* of each described task; a response without tags fills nothing in
EcsTaskStates(arns, tagged) ==
  LET described == DescribedTasks(arns)
      ids == IF tagged THEN {ecsTasks[described[k]].shard : k \in 1..Len(described)}
                       ELSE {}
  IN [id \in ids |->
        LET a == CHOOSE b \in {described[k] : k \in 1..Len(described)} :
                    ecsTasks[b].shard = id
        IN [status |-> ecsTasks[a].lastStatus, exitCode |-> ecsTasks[a].exitCode]]

\* results.find(r => r.shard === id)
FindResult(rs, id) ==
  rs[CHOOSE k \in 1..Len(rs) :
       rs[k].shard = id /\ \A j \in 1..(k - 1) : rs[j].shard # id]

\* a merge that lets the live ECS state win over the stored result
ShardStatusLiveFirst(id, rs, ecsStates) ==
  IF id \in DOMAIN ecsStates
  THEN [shardId |-> id, state |-> mapEcsStatus(ecsStates[id].status),
        ecsStatus |-> ecsStates[id].status, hasResult |-> FALSE]
  ELSE IF \E k \in 1..Len(rs) : rs[k].shard = id
       THEN [shardId |-> id,
             state |-> IF FindResult(rs, id).failed > 0 THEN "failed" ELSE "completed",
             ecsStatus |-> "none", hasResult |-> TRUE]
       ELSE [shardId |-> id, state |-> "unknown", ecsStatus |-> "none",
             hasResult |-> FALSE]

\* 6. Build per-shard status
ShardStatus(id, rs, ecsStates) ==
  IF \E k \in 1..Len(rs) : rs[k].shard = id
  THEN [shardId |-> id,
        state |-> IF FindResult(rs, id).failed > 0 THEN "failed" ELSE "completed",
        ecsStatus |-> IF id \in DOMAIN ecsStates THEN ecsStates[id].status ELSE "none",
        hasResult |-> TRUE]
  ELSE IF id \in DOMAIN ecsStates
       THEN [shardId |-> id, state |-> mapEcsStatus(ecsStates[id].status),
             ecsStatus |-> ecsStates[id].status, hasResult |-> FALSE]
       ELSE [shardId |-> id, state |-> "unknown", ecsStatus |-> "none",
             hasResult |-> FALSE]

\* an overall status that is failed as soon as one shard failed
OverallStatusAnyFailed(statuses, total) ==
  LET completed == Cardinality({k \in 1..Len(statuses) :
                                  statuses[k].state \in {"completed", "failed"}})
      running == Cardinality({k \in 1..Len(statuses) : statuses[k].state = "running"})
      failed == Cardinality({k \in 1..Len(statuses) : statuses[k].state = "failed"})
  IN IF failed > 0 THEN "failed"
     ELSE IF completed = total THEN "completed"
     ELSE IF running > 0 THEN "running"
     ELSE IF completed > 0 THEN "running"
     ELSE "pending"

\* showStatus: Build RunStatus return value
OverallStatus(statuses, total) ==
  LET completed == Cardinality({k \in 1..Len(statuses) :
                                  statuses[k].state \in {"completed", "failed"}})
      running == Cardinality({k \in 1..Len(statuses) : statuses[k].state = "running"})
      failed == Cardinality({k \in 1..Len(statuses) : statuses[k].state = "failed"})
  IN IF completed = total THEN (IF failed > 0 THEN "failed" ELSE "completed")
     ELSE IF running > 0 THEN "running"
     ELSE IF completed > 0 THEN "running"
     ELSE "pending"

\* showStatus: gatherStatus threw, process.exit(1)
StatusFail(err) ==
  /\ stPc' = "exited"
  /\ stExit' = 1
  /\ stError' = err

\* a load that takes an unreadable shards.json for a run without shards
StatusLoadShardsEmptyOnFailure ==
  /\ stPc = "loadShards"
  /\ \E ok \in (IF s3Shards.present THEN BOOLEAN ELSE {FALSE}) :
       /\ calls' = Append(calls, Call("downloadShards", 0, ok))
       /\ stShards' = IF ok THEN s3Shards.shards ELSE <<>>
       /\ stPc' = "listResults"
       /\ UNCHANGED <<stExit, stError>>
  /\ UNCHANGED <<s3TestCode, s3Shards, s3Tasks, s3Results, ecsTasks>>
  /\ UNCHANGED <<stResults, stStoreAtList, stStatuses, stHasTaskArns, stOverall,
                 stWatch, stObserved>>
  /\ UNCHANGED <<runVars, shardingVars, cancelVars, interruptVars, retryVars, isolationVars, workerVars>>

\* gatherStatus 1: load shards.json
StatusLoadShards ==
  /\ stPc = "loadShards"
  /\ \E ok \in (IF s3Shards.present THEN BOOLEAN ELSE {FALSE}) :
       /\ calls' = Append(calls, Call("downloadShards", 0, ok))
       /\ IF ok THEN /\ stShards' = s3Shards.shards
                     /\ stPc' = "listResults"
                     /\ UNCHANGED <<stExit, stError>>
                ELSE /\ StatusFail("Run not found")
                     /\ UNCHANGED stShards
  /\ UNCHANGED <<s3TestCode, s3Shards, s3Tasks, s3Results, ecsTasks>>
  /\ UNCHANGED <<stResults, stStoreAtList, stStatuses, stHasTaskArns, stOverall,
                 stWatch, stObserved>>
  /\ UNCHANGED <<runVars, shardingVars, cancelVars, interruptVars, retryVars, isolationVars, workerVars>>

\* the results/*.json keys in listing order, each downloaded; a download that
\* fails is skipped
StoredResults(readable) ==
  LET ids == SelectSeq([n \in 1..MaxShards |-> n - 1],
                       LAMBDA id : s3Results[id] # Absent /\ id \in readable)
  IN [k \in 1..Len(ids) |-> s3Results[ids[k]]]

\* a listing that deletes the result files it cannot read
StatusListResultsDeletingCorrupt ==
  /\ stPc = "listResults"
  /\ \E ok \in BOOLEAN, readable \in SUBSET (0..(MaxShards - 1)) :
       /\ calls' = Append(calls, Call("listResults", 0, ok))
       /\ IF ok THEN /\ stResults' = StoredResults(readable)
                     /\ s3Results' = [id \in 0..(MaxShards - 1) |->
                                        IF id \in readable THEN s3Results[id]
                                                           ELSE Absent]
                     /\ stStoreAtList' = s3Results
                     /\ stPc' = "live"
                     /\ UNCHANGED <<stExit, stError>>
                ELSE /\ StatusFail("StoreError")
                     /\ UNCHANGED <<stResults, stStoreAtList, s3Results>>
  /\ UNCHANGED <<s3TestCode, s3Shards, s3Tasks, ecsTasks>>
  /\ UNCHANGED <<stShards, stStatuses, stHasTaskArns, stOverall, stWatch, stObserved>>
  /\ UNCHANGED <<runVars, shardingVars, cancelVars, interruptVars, retryVars, isolationVars, workerVars>>

\* gatherStatus 3-4: list the result files and download them
StatusListResults ==
  /\ stPc = "listResults"
  /\ \E ok \in BOOLEAN, readable \in SUBSET (0..(MaxShards - 1)) :
       /\ calls' = Append(calls, Call("listResults", 0, ok))
       /\ IF ok THEN /\ stResults' = StoredResults(readable)
                     /\ stStoreAtList' = s3Results
                     /\ stPc' = "live"
                     /\ UNCHANGED <<stExit, stError>>
                ELSE /\ StatusFail("StoreError")
                     /\ UNCHANGED <<stResults, stStoreAtList>>
  /\ UNCHANGED <<s3TestCode, s3Shards, s3Tasks, s3Results, ecsTasks>>
  /\ UNCHANGED <<stShards, stStatuses, stHasTaskArns, stOverall, stWatch, stObserved>>
  /\ UNCHANGED <<runVars, shardingVars, cancelVars, interruptVars, retryVars, isolationVars, workerVars>>

\* watchStatus: status.status === 'completed' || status.status === 'failed'
Terminal(overall) == overall \in {"completed", "failed"}

\* a watch loop that also ends when nothing is running
AfterPollStopWhenIdle(watch, overall) ==
  IF watch /\ overall = "running" THEN "sleep" ELSE "done"

\* where the command goes after a showStatus call: the one-shot command is
\* done, the watch loop breaks on a terminal status and sleeps otherwise
AfterPoll(watch, overall) ==
  IF watch /\ ~Terminal(overall) THEN "sleep" ELSE "done"

\* gatherStatus 5-6 and showStatus: load tasks.json, describe the tasks (any
\* failure falls back to S3-only mode), merge per shard, overall status
StatusLiveAndMerge ==
  /\ stPc = "live"
  /\ \E tasksOk \in (IF s3Tasks.present THEN BOOLEAN ELSE {FALSE}),
        describeOk \in BOOLEAN, tagged \in BOOLEAN :
       LET ecsStates == IF tasksOk /\ describeOk
                        THEN EcsTaskStates(s3Tasks.taskArns, tagged)
                        ELSE <<>>
           statuses == [k \in 1..Len(stShards) |->
                          ShardStatus(stShards[k], stResults, ecsStates)]
           overall == OverallStatus(statuses, Len(stShards))
       IN /\ calls' = IF tasksOk
                      THEN calls \o <<Call("downloadTasks", 0, TRUE),
                                      Call("DescribeTasks", 0, describeOk)>>
                      ELSE Append(calls, Call("downloadTasks", 0, FALSE))
          /\ stHasTaskArns' = tasksOk
          /\ stStatuses' = statuses
          /\ stOverall' = overall
          /\ stObserved' = Append(stObserved, overall)
          /\ stPc' = AfterPoll(stWatch, overall)
  /\ UNCHANGED <<s3TestCode, s3Shards, s3Tasks, s3Results, ecsTasks>>
  /\ UNCHANGED <<stShards, stResults, stStoreAtList, stExit, stError, stWatch>>
  /\ UNCHANGED <<runVars, shardingVars, cancelVars, interruptVars, retryVars, isolationVars, workerVars>>

\* watchStatus: the POLL_INTERVAL_MS sleep is over, next iteration of the loop
\* (the locals of the previous showStatus call are gone)
WatchSleep ==
  /\ stPc = "sleep"
  /\ Len(stObserved) < MaxPolls
  /\ stPc' = "loadShards"
  /\ stShards' = <<>>
  /\ stResults' = <<>>
  /\ stStoreAtList' = <<>>
  /\ stStatuses' = <<>>
  /\ stHasTaskArns' = FALSE
  /\ stOverall' = "none"
  /\ UNCHANGED <<stExit, stError, stWatch, stObserved>>
  /\ UNCHANGED <<envVars, runVars, shardingVars, cancelVars, interruptVars, retryVars, isolationVars, workerVars>>

\* watchStatus: SIGINT handler, process.exit(0)
WatchInterrupt ==
  /\ stWatch
  /\ stPc \notin {"done", "exited"}
  /\ stPc' = "exited"
  /\ stExit' = 0
  /\ stShards' = <<>>
  /\ stResults' = <<>>
  /\ stStoreAtList' = <<>>
  /\ stStatuses' = <<>>
  /\ stHasTaskArns' = FALSE
  /\ stOverall' = "none"
  /\ UNCHANGED <<stError, stWatch, stObserved>>
  /\ UNCHANGED <<envVars, runVars, shardingVars, cancelVars, interruptVars, retryVars, isolationVars, workerVars>>

\* tasks and workers going on while a status or cancel command runs
ObservedEnv ==
  /\ \E a \in Arns : \/ TaskStart(a)
                     \/ WorkerUpload(a)
                     \/ WorkerExit(a)
                     \/ TaskStopped(a)
                     \/ TaskExpire(a)
  /\ UNCHANGED <<runVars, shardingVars, statusVars, cancelVars, interruptVars, retryVars, isolationVars, workerVars>>

StatusInit ==
  /\ ObservedInit
  /\ RunOff
  /\ ShardingIdle
  /\ CancelIdle
  /\ stPc = "loadShards"
  /\ stShards = <<>>
  /\ stResults = <<>>
  /\ stStoreAtList = <<>>
  /\ stStatuses = <<>>
  /\ stHasTaskArns = FALSE
  /\ stOverall = "none"
  /\ stExit = NoExit
  /\ stError = "none"
  /\ stWatch = FALSE
  /\ stObserved = <<>>

StatusNext ==
  \/ ObservedEnv
  \/ StatusLoadShards
  \/ StatusListResults
  \/ StatusLiveAndMerge

SpecStatus == StatusInit /\ [][StatusNext]_vars

\* cheaptest status <runId> --watch
WatchInit ==
  /\ ObservedInit
  /\ RunOff
  /\ ShardingIdle
  /\ CancelIdle
  /\ stPc = "loadShards"
  /\ stShards = <<>>
  /\ stResults = <<>>
  /\ stStoreAtList = <<>>
  /\ stStatuses = <<>>
  /\ stHasTaskArns = FALSE
  /\ stOverall = "none"
  /\ stExit = NoExit
  /\ stError = "none"
  /\ stWatch = TRUE
  /\ stObserved = <<>>

\* tasks and workers going on while the watch is running
WatchEnv ==
  /\ stPc \notin {"done", "exited"}
  /\ ObservedEnv

WatchNext ==
  \/ WatchEnv
  \/ StatusLoadShards
  \/ StatusListResults
  \/ StatusLiveAndMerge
  \/ WatchSleep
  \/ WatchInterrupt

SpecWatch == WatchInit /\ [][WatchNext]_vars

\* watchStatus: the sleep of a watch that has polled MaxPolls times already;
\* the same step of the loop, the logs keep the latest observations only
WatchSleepRolling ==
  /\ stPc = "sleep"
  /\ Len(stObserved) = MaxPolls
  /\ stPc' = "loadShards"
  /\ stShards' = <<>>
  /\ stResults' = <<>>
  /\ stStoreAtList' = <<>>
  /\ stStatuses' = <<>>
  /\ stHasTaskArns' = FALSE
  /\ stOverall' = "none"
  /\ stObserved' = Tail(stObserved)
  /\ calls' = <<>>
  /\ UNCHANGED <<s3TestCode, s3Shards, s3Tasks, s3Results, ecsTasks>>
  /\ UNCHANGED <<stExit, stError, stWatch>>
  /\ UNCHANGED <<runVars, shardingVars, cancelVars, interruptVars, retryVars, isolationVars, workerVars>>

WatchForeverNext == WatchNext \/ WatchSleepRolling

\* the watch with every call of a poll returning and the 5 s timer firing; no
\* fairness for the tasks, the workers or Ctrl+C
SpecWatchForever ==
  /\ WatchInit
  /\ [][WatchForeverNext]_vars
  /\ WF_vars(StatusLoadShards)
  /\ WF_vars(StatusListResults)
  /\ WF_vars(StatusLiveAndMerge)
  /\ WF_vars(WatchSleep)
  /\ WF_vars(WatchSleepRolling)

\* ------------------------------------------------ cancel command (cancel.ts)
\* cancelCommand: process.exit(1)
CancelFail ==
  /\ cnPc' = "exited"
  /\ cnExit' = 1

\* a cancel that treats an unreadable tasks.json as a run without tasks
CancelLoadTasksEmptyOnFailure ==
  /\ cnPc = "loadTasks"
  /\ \E ok \in (IF s3Tasks.present THEN BOOLEAN ELSE {FALSE}) :
       /\ calls' = Append(calls, Call("downloadTasks", 0, ok))
       /\ cnManifest' = IF ok THEN s3Tasks.taskArns ELSE <<>>
       /\ cnPc' = "describe"
       /\ UNCHANGED cnExit
  /\ UNCHANGED <<s3TestCode, s3Shards, s3Tasks, s3Results, ecsTasks>>
  /\ UNCHANGED <<cnForce, cnDescribed, cnActive, cnAlreadyStopped, cnIndex,
                 cnStopped, cnErrors>>
  /\ UNCHANGED <<runVars, shardingVars, statusVars, interruptVars, retryVars, isolationVars, workerVars>>

\* 1. Load tasks.json to get task ARNs
CancelLoadTasks ==
  /\ cnPc = "loadTasks"
  /\ \E ok \in (IF s3Tasks.present THEN BOOLEAN ELSE {FALSE}) :
       /\ calls' = Append(calls, Call("downloadTasks", 0, ok))
       /\ IF ok THEN /\ cnManifest' = s3Tasks.taskArns
                     /\ cnPc' = "describe"
                     /\ UNCHANGED cnExit
                ELSE /\ CancelFail
                     /\ UNCHANGED cnManifest
  /\ UNCHANGED <<s3TestCode, s3Shards, s3Tasks, s3Results, ecsTasks>>
  /\ UNCHANGED <<cnForce, cnDescribed, cnActive, cnAlreadyStopped, cnIndex,
                 cnStopped, cnErrors>>
  /\ UNCHANGED <<runVars, shardingVars, statusVars, interruptVars, retryVars, isolationVars, workerVars>>

\* activeTasks = allTasks.filter(t => t.lastStatus !== 'STOPPED' &&
\*                                    t.lastStatus !== 'DEPROVISIONING')
ActiveTasks(all) ==
  SelectSeq(all, LAMBDA a : ecsTasks[a].lastStatus \notin {"STOPPED", "DEPROVISIONING"})

\* a cancel that goes on to the stop loop without looking at options.force
CancelDescribeUngated ==
  /\ cnPc = "describe"
  /\ \E ok \in BOOLEAN :
       /\ calls' = Append(calls, Call("DescribeTasks", 0, ok))
       /\ IF ~ok
          THEN /\ CancelFail
               /\ UNCHANGED <<cnDescribed, cnActive, cnAlreadyStopped>>
          ELSE LET all == DescribedTasks(cnManifest)
                   active == ActiveTasks(all)
               IN /\ cnDescribed' = [a \in {all[k] : k \in 1..Len(all)} |->
                                       ecsTasks[a].lastStatus]
                  /\ cnActive' = active
                  /\ cnAlreadyStopped' = Len(all) - Len(active)
                  /\ IF Len(active) = 0
                     THEN cnPc' = "done" /\ cnExit' = 0
                     ELSE cnPc' = "stop" /\ UNCHANGED cnExit
  /\ UNCHANGED <<s3TestCode, s3Shards, s3Tasks, s3Results, ecsTasks>>
  /\ UNCHANGED <<cnForce, cnManifest, cnIndex, cnStopped, cnErrors>>
  /\ UNCHANGED <<runVars, shardingVars, statusVars, interruptVars, retryVars, isolationVars, workerVars>>

\* 2-3. Describe the tasks, partition active / already stopped; nothing
\* active, or no --force: return without stopping anything
CancelDescribe ==
  /\ cnPc = "describe"
  /\ \E ok \in BOOLEAN :
       /\ calls' = Append(calls, Call("DescribeTasks", 0, ok))
       /\ IF ~ok
          THEN /\ CancelFail
               /\ UNCHANGED <<cnDescribed, cnActive, cnAlreadyStopped>>
          ELSE LET all == DescribedTasks(cnManifest)
                   active == ActiveTasks(all)
               IN /\ cnDescribed' = [a \in {all[k] : k \in 1..Len(all)} |->
                                       ecsTasks[a].lastStatus]
                  /\ cnActive' = active
                  /\ cnAlreadyStopped' = Len(all) - Len(active)
                  /\ IF Len(active) = 0 \/ ~cnForce
                     THEN cnPc' = "done" /\ cnExit' = 0
                     ELSE cnPc' = "stop" /\ UNCHANGED cnExit
  /\ UNCHANGED <<s3TestCode, s3Shards, s3Tasks, s3Results, ecsTasks>>
  /\ UNCHANGED <<cnForce, cnManifest, cnIndex, cnStopped, cnErrors>>
  /\ UNCHANGED <<runVars, shardingVars, statusVars, interruptVars, retryVars, isolationVars, workerVars>>

\* 4. Stop each active task: one StopTaskCommand of the loop, a rejected call
\* is counted and the loop goes on
CancelStop ==
  /\ cnPc = "stop"
  /\ \E ok \in BOOLEAN :
       /\ calls' = Append(calls, Call("StopTask", cnActive[cnIndex + 1], ok))
       /\ IF ok THEN /\ ecsTasks' = StopTask(ecsTasks, cnActive[cnIndex + 1])
                     /\ cnStopped' = cnStopped + 1
                     /\ UNCHANGED cnErrors
                ELSE /\ cnErrors' = cnErrors + 1
                     /\ UNCHANGED <<ecsTasks, cnStopped>>
  /\ cnIndex' = cnIndex + 1
  /\ IF cnIndex + 1 < Len(cnActive)
     THEN UNCHANGED <<cnPc, cnExit>>
     ELSE cnPc' = "done" /\ cnExit' = 0
  /\ UNCHANGED <<s3TestCode, s3Shards, s3Tasks, s3Results>>
  /\ UNCHANGED <<cnForce, cnManifest, cnDescribed, cnActive, cnAlreadyStopped>>
  /\ UNCHANGED <<runVars, shardingVars, statusVars, interruptVars, retryVars, isolationVars, workerVars>>

CancelInit ==
  /\ ObservedInit
  /\ RunOff
  /\ ShardingIdle
  /\ StatusIdle
  /\ cnPc = "loadTasks"
  /\ cnForce \in BOOLEAN
  /\ cnManifest = <<>>
  /\ cnDescribed = <<>>
  /\ cnActive = <<>>
  /\ cnAlreadyStopped = 0
  /\ cnIndex = 0
  /\ cnStopped = 0
  /\ cnErrors = 0
  /\ cnExit = NoExit

CancelNext ==
  \/ ObservedEnv
  \/ CancelLoadTasks
  \/ CancelDescribe
  \/ CancelStop

SpecCancel == CancelInit /\ [][CancelNext]_vars

\* ------------------------------------------------------- specification
Init ==
  /\ EnvInit
  /\ pc = "ensureBucket"
  /\ \E k \in 1..MaxShards : shards = ShardIds(k)
  /\ RunIdle
  /\ ShardingIdle
  /\ StatusIdle
  /\ CancelIdle
  /\ InterruptIdle
  /\ RetryIdle
  /\ IsolationIdle
  /\ WorkerIdle

Env ==
  /\ pc # "exited"
  /\ \E a \in Arns : TaskStart(a) \/ WorkerUpload(a) \/ WorkerExit(a) \/ TaskStopped(a)
  /\ UNCHANGED <<runVars, shardingVars, statusVars, cancelVars, interruptVars, retryVars, isolationVars, workerVars>>

Next ==
  \/ Env
  \/ EnsureBucket
  \/ UploadTestCode
  \/ UploadShards
  \/ RunTask
  \/ PersistTasks
  \/ PollTimeout
  \/ TimeoutStop
  \/ PollDescribe
  \/ FetchResult
  \/ RunCheckResults
  \/ RunCommandExit
  \/ RunCommandCatch

Spec == Init /\ [][Next]_vars

\* ECS stops describing a stopped task
ExpireEnv ==
  /\ pc # "exited"
  /\ \E a \in Arns : TaskExpire(a)
  /\ UNCHANGED <<runVars, shardingVars, statusVars, cancelVars, interruptVars, retryVars, isolationVars, workerVars>>

PollingNext == Next \/ ExpireEnv

\* the run with every call of the polling phase returning and the clock
\* advancing from one poll to the next; the tasks themselves need not progress
SpecPolling ==
  /\ Init
  /\ [][PollingNext]_vars
  /\ WF_vars(PollDescribe)
  /\ WF_vars(PollTimeout)
  /\ WF_vars(TimeoutStop)

\* ------------------------------------- runCommand SIGINT handler (run.ts)
\* the run's own frame for a step of the handler
HandlerFrame ==
  /\ UNCHANGED <<shards, taskArns, i, attempt, elapsed, results, failedShards,
                 runError, summary, activeAtDeadline>>
  /\ UNCHANGED <<shardingVars, statusVars, cancelVars, retryVars, isolationVars, workerVars>>

\* the run is suspended at an await: only then can the event loop run a step
\* of the handler (nothing is awaited between a throw, or the last result
\* fetch, and what the run does next)
AtAwait == pc \notin {"checkResults", "threw", "exited"}

\* process.exit(130)
HandlerExit ==
  /\ pc' = "exited"
  /\ exitCode' = 130
  /\ sigPc' = "done"

\* SIGINT arrives while the run is in progress (backend.lastRunId is set from
\* the start of ECSBackend.run); the handler calls backend.cancel
Interrupt ==
  /\ AtAwait
  /\ sigPc = "none"
  /\ sigPc' = "cancelLoad"
  /\ UNCHANGED <<sigArns, sigIndex, sigCalls>>
  /\ UNCHANGED <<envVars, runVars, shardingVars, statusVars, cancelVars, retryVars, isolationVars, workerVars>>

\* ECSBackend.cancel: load tasks.json; a failure is thrown to the handler,
\* which swallows it and exits
CancelLoad ==
  /\ AtAwait
  /\ sigPc = "cancelLoad"
  /\ \E ok \in (IF s3Tasks.present THEN BOOLEAN ELSE {FALSE}) :
       /\ sigCalls' = Append(sigCalls, Call("downloadTasks", 0, ok))
       /\ IF ok THEN /\ sigArns' = s3Tasks.taskArns
                     /\ sigPc' = "cancelStop"
                     /\ UNCHANGED <<pc, exitCode>>
                ELSE /\ HandlerExit
                     /\ UNCHANGED sigArns
  /\ UNCHANGED sigIndex
  /\ UNCHANGED envVars
  /\ HandlerFrame

\* a stop loop that the first rejected StopTaskCommand ends
CancelStopTaskAbortOnError ==
  /\ AtAwait
  /\ sigPc = "cancelStop"
  /\ \E ok \in BOOLEAN :
       /\ sigCalls' = Append(sigCalls, Call("StopTask", sigArns[sigIndex + 1], ok))
       /\ ecsTasks' = IF ok THEN StopTask(ecsTasks, sigArns[sigIndex + 1]) ELSE ecsTasks
       /\ IF ok /\ sigIndex + 1 < Len(sigArns)
          THEN UNCHANGED <<pc, exitCode, sigPc>>
          ELSE HandlerExit
  /\ sigIndex' = sigIndex + 1
  /\ UNCHANGED sigArns
  /\ UNCHANGED <<s3TestCode, s3Shards, s3Tasks, s3Results, calls>>
  /\ HandlerFrame

\* ECSBackend.cancel: one StopTaskCommand of the loop over tasksData.taskArns,
\* a rejected call is swallowed; after the last one the handler exits
CancelStopTask ==
  /\ AtAwait
  /\ sigPc = "cancelStop"
  /\ \E ok \in BOOLEAN :
       /\ sigCalls' = Append(sigCalls, Call("StopTask", sigArns[sigIndex + 1], ok))
       /\ ecsTasks' = IF ok THEN StopTask(ecsTasks, sigArns[sigIndex + 1]) ELSE ecsTasks
  /\ sigIndex' = sigIndex + 1
  /\ IF sigIndex + 1 < Len(sigArns)
     THEN UNCHANGED <<pc, exitCode, sigPc>>
     ELSE HandlerExit
  /\ UNCHANGED sigArns
  /\ UNCHANGED <<s3TestCode, s3Shards, s3Tasks, s3Results, calls>>
  /\ HandlerFrame

\* the run of Spec, interruptible: the handler's steps interleave with the
\* run's at every await
InterruptNext ==
  \/ Env
  \/ EnsureBucket
  \/ UploadTestCode
  \/ UploadShards
  \/ RunTask
  \/ PersistTasks
  \/ PollTimeout
  \/ TimeoutStop
  \/ PollDescribe
  \/ FetchResult
  \/ RunCheckResults
  \/ RunCommandExit
  \/ RunCommandCatch
  \/ Interrupt
  \/ CancelLoad
  \/ CancelStopTask

SpecInterrupt == Init /\ [][InterruptNext]_vars

\* ------------------------------------------------ withRetry (utils/retry.ts)
RECURSIVE Pow2(_)
Pow2(n) == IF n = 0 THEN 1 ELSE 2 * Pow2(n - 1)

\* a delay without the cap of maxDelayMs
RetryDelayUncapped(opts, tries, random) ==
  <<opts.baseDelayMs * Pow2(tries) * (3 * RandomSteps + 2 * random), 4 * RandomSteps>>

\* capped * (0.75 + Math.random() * 0.5), with Math.random() = random / RandomSteps,
\* as the fraction <<numerator, denominator>>
RetryDelay(opts, tries, random) ==
  LET exponentialDelay == opts.baseDelayMs * Pow2(tries)
      capped == IF exponentialDelay < opts.maxDelayMs THEN exponentialDelay
                ELSE opts.maxDelayMs
  IN <<capped * (3 * RandomSteps + 2 * random), 4 * RandomSteps>>

RetryFrame ==
  /\ UNCHANGED rtOpts
  /\ UNCHANGED <<envVars, runVars, shardingVars, statusVars, cancelVars, interruptVars,
                 isolationVars, workerVars>>

\* an iteration that gives up at the first failed attempt
WithRetryAttemptOnce ==
  /\ rtPc = "attempt"
  /\ rtAttempt < rtOpts.maxAttempts
  /\ \E ok \in BOOLEAN :
       /\ rtOutcomes' = Append(rtOutcomes, ok)
       /\ rtPc' = "done"
       /\ rtResult' = IF ok THEN [kind |-> "returned", value |-> Len(rtOutcomes) + 1]
                      ELSE [kind |-> "threw", value |-> Len(rtOutcomes) + 1]
       /\ rtLastError' = IF ok THEN rtLastError ELSE Len(rtOutcomes) + 1
       /\ UNCHANGED <<rtAttempt, rtOnRetry, rtDelays>>
  /\ RetryFrame

\* one iteration of the loop: return await fn(), or the catch block up to the
\* setTimeout; invocation n of fn returns the value n or throws the error n
WithRetryAttempt ==
  /\ rtPc = "attempt"
  /\ rtAttempt < rtOpts.maxAttempts
  /\ \E ok \in BOOLEAN :
       /\ rtOutcomes' = Append(rtOutcomes, ok)
       /\ IF ok
          THEN /\ rtPc' = "done"
               /\ rtResult' = [kind |-> "returned", value |-> Len(rtOutcomes) + 1]
               /\ UNCHANGED <<rtAttempt, rtLastError, rtOnRetry, rtDelays>>
          ELSE /\ rtLastError' = Len(rtOutcomes) + 1
               /\ UNCHANGED rtResult
               /\ IF rtAttempt < rtOpts.maxAttempts - 1
                  THEN /\ rtOnRetry' = Append(rtOnRetry, <<rtAttempt + 1, Len(rtOutcomes) + 1>>)
                       /\ \E random \in 0..(RandomSteps - 1) :
                            rtDelays' = Append(rtDelays, RetryDelay(rtOpts, rtAttempt, random))
                       /\ rtPc' = "sleep"
                       /\ UNCHANGED rtAttempt
                  ELSE /\ rtAttempt' = rtAttempt + 1
                       /\ UNCHANGED <<rtPc, rtOnRetry, rtDelays>>
  /\ RetryFrame

\* the timer fires: attempt++
WithRetryWake ==
  /\ rtPc = "sleep"
  /\ rtAttempt' = rtAttempt + 1
  /\ rtPc' = "attempt"
  /\ UNCHANGED <<rtOutcomes, rtLastError, rtOnRetry, rtDelays, rtResult>>
  /\ RetryFrame

\* the loop is over: throw lastError
WithRetryThrow ==
  /\ rtPc = "attempt"
  /\ rtAttempt >= rtOpts.maxAttempts
  /\ rtPc' = "done"
  /\ rtResult' = [kind |-> "threw", value |-> rtLastError]
  /\ UNCHANGED <<rtAttempt, rtOutcomes, rtLastError, rtOnRetry, rtDelays>>
  /\ RetryFrame

\* a call withRetry(fn, { maxAttempts, baseDelayMs, maxDelayMs })
RetryInit ==
  /\ EnvInit
  /\ pc = "idle"
  /\ shards = <<>>
  /\ RunIdle
  /\ ShardingIdle
  /\ StatusIdle
  /\ CancelIdle
  /\ InterruptIdle
  /\ IsolationIdle
  /\ WorkerIdle
  /\ rtPc = "attempt"
  /\ \E m \in 0..MaxRetryAttempts, base \in 0..MaxRetryDelay, max \in 0..(2 * MaxRetryDelay) :
       rtOpts = [maxAttempts |-> m, baseDelayMs |-> base, maxDelayMs |-> max]
  /\ rtAttempt = 0
  /\ rtOutcomes = <<>>
  /\ rtLastError = NoLastError
  /\ rtOnRetry = <<>>
  /\ rtDelays = <<>>
  /\ rtResult = NoRetryResult

RetryNext ==
  \/ WithRetryAttempt
  \/ WithRetryWake
  \/ WithRetryThrow

SpecRetry == RetryInit /\ [][RetryNext]_vars

\* ------------------------------- two concurrent run commands (ecs.ts, twice)
\* the key runs/<runId>/<name>, or runs/<runId>/results/shard-<shard>.json
RunKey(runId, name, shard) == [runId |-> runId, name |-> name, shard |-> shard]

IsolationFrame ==
  UNCHANGED <<envVars, runVars, shardingVars, statusVars, cancelVars, interruptVars,
              retryVars, workerVars>>

\* a millisecond passes
ClockTick ==
  /\ isoNow < MaxClockMs
  /\ isoNow' = isoNow + 1
  /\ UNCHANGED <<isoRunId, isoPc, isoShard, isoKeys>>
  /\ IsolationFrame

\* const runId = `run-${Date.now()}`
RunStart(p) ==
  /\ isoPc[p] = "idle"
  /\ isoRunId' = [isoRunId EXCEPT ![p] = isoNow]
  /\ isoPc' = [isoPc EXCEPT ![p] = "uploadTestCode"]
  /\ UNCHANGED <<isoNow, isoShard, isoKeys>>
  /\ IsolationFrame

\* uploadTestCode, uploadShards and the tasks.json write of createTasks, each
\* under runs/<runId>/
RunWrite(p) ==
  /\ isoPc[p] \in {"uploadTestCode", "uploadShards", "persistTasks"}
  /\ LET name == CASE isoPc[p] = "uploadTestCode" -> "test-code.tar.gz"
                   [] isoPc[p] = "uploadShards" -> "shards.json"
                   [] isoPc[p] = "persistTasks" -> "tasks.json"
         next == CASE isoPc[p] = "uploadTestCode" -> "uploadShards"
                   [] isoPc[p] = "uploadShards" -> "persistTasks"
                   [] isoPc[p] = "persistTasks" -> "workers"
     IN /\ isoKeys' = [isoKeys EXCEPT ![p] = @ \cup {RunKey(isoRunId[p], name, 0)}]
        /\ isoPc' = [isoPc EXCEPT ![p] = next]
  /\ UNCHANGED <<isoNow, isoRunId, isoShard>>
  /\ IsolationFrame

\* the worker of the next shard of run p uploads
\* runs/<RUN_ID>/results/shard-<SHARD_ID>.json
RunWorkerUpload(p) ==
  /\ isoPc[p] = "workers"
  /\ isoKeys' = [isoKeys EXCEPT ![p] = @ \cup {RunKey(isoRunId[p], "results/shard", isoShard[p])}]
  /\ isoShard' = [isoShard EXCEPT ![p] = @ + 1]
  /\ isoPc' = [isoPc EXCEPT ![p] = IF isoShard[p] + 1 < MaxShards THEN "workers" ELSE "done"]
  /\ UNCHANGED <<isoNow, isoRunId>>
  /\ IsolationFrame

\* two run commands about to start, on the same bucket
IsolationInit ==
  /\ EnvInit
  /\ pc = "idle"
  /\ shards = <<>>
  /\ RunIdle
  /\ ShardingIdle
  /\ StatusIdle
  /\ CancelIdle
  /\ InterruptIdle
  /\ RetryIdle
  /\ IsolationIdle
  /\ WorkerIdle

IsolationNext ==
  \/ ClockTick
  \/ \E p \in Runs : RunStart(p)
  \/ \E p \in Runs : RunWrite(p)
  \/ \E p \in Runs : RunWorkerUpload(p)

SpecIsolation == IsolationInit /\ [][IsolationNext]_vars

\* ------------------------------------------- worker main (worker/src/index.ts)
WorkerFrame ==
  /\ UNCHANGED <<wkCatchesRunner, wkShardId, wkFileCount>>
  /\ UNCHANGED <<envVars, runVars, shardingVars, statusVars, cancelVars, interruptVars,
                 retryVars, isolationVars>>

\* process.exit(code)
WorkerExited(code) ==
  /\ wkPc' = "exited"
  /\ wkExit' = code

\* downloadAndExtract(test-code.tar.gz), then downloadJSON(shards.json) and
\* the lookup of the shard; a failure goes to the catch of main
WorkerDownload ==
  /\ wkPc \in {"downloadCode", "downloadShards"}
  /\ \E ok \in BOOLEAN :
       IF ok
       THEN /\ wkPc' = IF wkPc = "downloadCode" THEN "downloadShards" ELSE "runTests"
            /\ UNCHANGED wkExit
       ELSE WorkerExited(1)
  /\ UNCHANGED <<wkResult, wkRunnerError, wkUploads>>
  /\ WorkerFrame

\* result = await runner.run(): one test per file here; when it rejects, the
\* build that catches it makes the all-failed result, the other goes to the
\* catch of main
WorkerRunTests ==
  /\ wkPc = "runTests"
  /\ \/ \E failed \in 0..wkFileCount :
          /\ wkResult' = [kind |-> "result", shard |-> wkShardId,
                          passed |-> wkFileCount - failed, failed |-> failed,
                          skipped |-> 0]
          /\ wkPc' = "upload"
          /\ UNCHANGED <<wkRunnerError, wkExit>>
     \/ IF wkCatchesRunner
        THEN /\ wkRunnerError' = TRUE
             /\ wkResult' = [kind |-> "result", shard |-> wkShardId, passed |-> 0,
                             failed |-> wkFileCount, skipped |-> 0]
             /\ wkPc' = "upload"
             /\ UNCHANGED wkExit
        ELSE /\ WorkerExited(1)
             /\ UNCHANGED <<wkResult, wkRunnerError>>
  /\ UNCHANGED wkUploads
  /\ WorkerFrame

\* uploadJSON(results/shard-<shardId>.json), then process.exit(exitCode)
WorkerUploadResult ==
  /\ wkPc = "upload"
  /\ \E ok \in BOOLEAN :
       IF ok
       THEN /\ wkUploads' = Append(wkUploads, [shard |-> wkShardId, result |-> wkResult])
            /\ WorkerExited(IF wkResult.failed > 0 \/ wkRunnerError THEN 1 ELSE 0)
       ELSE /\ WorkerExited(1)
            /\ UNCHANGED wkUploads
  /\ UNCHANGED <<wkResult, wkRunnerError>>
  /\ WorkerFrame

\* process.on('SIGTERM') / process.on('SIGINT'): process.exit(143 / 130)
WorkerSignal ==
  /\ wkPc \in {"downloadCode", "downloadShards", "runTests", "upload"}
  /\ \E code \in {143, 130} : WorkerExited(code)
  /\ UNCHANGED <<wkResult, wkRunnerError, wkUploads>>
  /\ WorkerFrame

\* a worker started for one shard of a run, in either build of main
WorkerInit ==
  /\ EnvInit
  /\ pc = "idle"
  /\ shards = <<>>
  /\ RunIdle
  /\ ShardingIdle
  /\ StatusIdle
  /\ CancelIdle
  /\ InterruptIdle
  /\ RetryIdle
  /\ IsolationIdle
  /\ wkPc = "downloadCode"
  /\ wkCatchesRunner \in BOOLEAN
  /\ wkShardId \in 0..(MaxShards - 1)
  /\ wkFileCount \in 1..MaxFiles
  /\ wkResult = NoWorkerResult
  /\ wkRunnerError = FALSE
  /\ wkUploads = <<>>
  /\ wkExit = NoExit

WorkerNext ==
  \/ WorkerDownload
  \/ WorkerRunTests
  \/ WorkerUploadResult
  \/ WorkerSignal

SpecWorker == WorkerInit /\ [][WorkerNext]_vars

\* ------------------------------------------------------------ properties
StopCalls(a) ==
  Cardinality({k \in 1..Len(calls) : calls[k].op = "StopTask" /\ calls[k].arg = a})

FetchCalls(s) ==
  Cardinality({k \in 1..Len(calls) : calls[k].op = "downloadResult" /\ calls[k].arg = s})

RunShardIds == {shards[k] : k \in 1..Len(shards)}

\* a poll of waitForCompletion saw every task STOPPED
AllStoppedObserved ==
  \E k \in 1..Len(calls) :
     calls[k].op = "DescribeTasks" /\ calls[k].ok /\ calls[k].arg = Len(shards)

\* C1: every RunTask call is preceded by a successful write of shards.json
\* (the RunManifest is in the store by then), and once a write of shards.json
\* has failed no RunTask call is ever issued.
ManifestBeforeLaunch ==
  \A k \in 1..Len(calls) :
     calls[k].op = "RunTask" =>
        /\ s3Shards.present
        /\ \E j \in 1..(k - 1) : calls[j].op = "uploadShards" /\ calls[j].ok
        /\ \A j \in 1..Len(calls) : calls[j].op = "uploadShards" => calls[j].ok

LaunchIssued ==
  \E k \in 1..Len(calls) : calls[k].op = "RunTask" /\ calls[k].ok

\* C5: once the run has failed with the timeout, every task that was not
\* STOPPED when the deadline was detected has received exactly one StopTask
\* call, whether or not earlier StopTask calls of the loop were rejected.
StopOncePerActiveOnDeadline ==
  runError.kind = "Timeout" =>
     \A a \in activeAtDeadline : StopCalls(a) = 1

DeadlineStopAfterRejectedStop ==
  /\ runError.kind = "Timeout"
  /\ \E k \in 1..Len(calls) :
        /\ calls[k].op = "StopTask" /\ ~calls[k].ok
        /\ \E j \in (k + 1)..Len(calls) :
              calls[j].op = "StopTask" /\ calls[j].arg \in activeAtDeadline

\* C6 (as claimed): a run that failed with the timeout has nevertheless
\* fetched the ShardResult of every shard id in [0,K).
AggregationAfterTimeout ==
  (pc = "exited" /\ runError.kind = "Timeout") =>
     \A s \in RunShardIds : FetchCalls(s) >= 1

\* C7 (as claimed): when aggregation ran and exactly one shard has no
\* ShardResult in the store, the run's error names that shard and the other
\* K-1 results are returned to the caller.
MissingShardNamedOthersReturned ==
  \A s \in RunShardIds :
     ( /\ pc = "exited"
       /\ Len(results) + Len(failedShards) = Len(shards)
       /\ {t \in RunShardIds : s3Results[t] = Absent} = {s} )
     => /\ runError.kind = "MissingResults"
        /\ s \in runError.shards
        /\ Len(summary.results) = Len(shards) - 1

\* C8 (as claimed): when a launch fails the run is aborted without polling or
\* aggregation, and every task launched before it has received a StopTask call.
LaunchFailureStopsLaunched ==
  (pc = "exited" /\ runError.kind = "LaunchError") =>
     /\ \A k \in 1..Len(calls) :
           calls[k].op \notin {"DescribeTasks", "downloadResult", "uploadTasks"}
     /\ \A a \in 1..Len(taskArns) : StopCalls(taskArns[a]) >= 1

\* C9: a run whose polling saw every task STOPPED has, by the time it ends,
\* fetched the ShardResult of every shard, whatever the tasks' exit codes.
AggregationAfterAllStopped ==
  (pc = "exited" /\ AllStoppedObserved) =>
     \A s \in RunShardIds : FetchCalls(s) >= 1

AggregatedWithFailedTask ==
  /\ pc = "exited"
  /\ AllStoppedObserved
  /\ \E a \in Arns : ecsTasks[a].exitCode = 1
  /\ \A s \in RunShardIds : FetchCalls(s) >= 1

\* C10: the run command exits 0 exactly when the result of every one of the
\* K shards was collected and the collected results count no failed test;
\* every other exit is non-zero.
ExitZeroIffAllCollectedNoFailure ==
  pc = "exited" =>
     /\ exitCode \in {0, 1}
     /\ exitCode = 0 <=>
          /\ {results[k].shard : k \in 1..Len(results)} = RunShardIds
          /\ Len(results) = Len(shards)
          /\ Sum([k \in 1..Len(results) |-> results[k].failed]) = 0

ExitedZero ==
  /\ pc = "exited"
  /\ exitCode = 0
  /\ Len(results) = Len(shards)
  /\ Len(shards) > 1

\* occurrences of file f over all shards of a plan
Occurrences(sh, f) ==
  Sum([n \in 1..Len(sh) |->
         Cardinality({p \in 1..Len(sh[n].files) : sh[n].files[p] = f})])

\* C2: for a non-empty list of distinct files, K >= 1 and any strategy, every
\* input file occurs exactly once over all returned shards and the shards hold
\* nothing but input files.
EveryFileInExactlyOneShard ==
  (shResult # NotSharded /\ Len(shFiles) > 0 /\ shCount >= 1) =>
     /\ shResult.error = "none"
     /\ \A k \in 1..Len(shFiles) : Occurrences(shResult.shards, shFiles[k]) = 1
     /\ Sum([n \in 1..Len(shResult.shards) |-> Len(shResult.shards[n].files)])
          = Len(shFiles)

ShardedSeveralFiles ==
  /\ shResult.error = "none"
  /\ Len(shFiles) = MaxFiles
  /\ shStrategy = "duration-based"
  /\ Len(shResult.shards) = 2
  /\ \A n \in 1..2 : Len(shResult.shards[n].files) >= 1

\* C3: in the snapshot, every shard of the manifest whose ShardResult was in
\* the store when the results were listed, and was read, is reported with the
\* state derived from that result (failed if failed > 0, otherwise completed),
\* whatever the live ECS status of its task.
StoreWinsOverLiveState ==
  stPc = "done" =>
     \A k \in 1..Len(stShards) :
        (/\ stStoreAtList[stShards[k]] # Absent
         /\ \E j \in 1..Len(stResults) : stResults[j].shard = stShards[k])
        => /\ stStatuses[k].shardId = stShards[k]
           /\ stStatuses[k].state =
                IF stStoreAtList[stShards[k]].failed > 0 THEN "failed" ELSE "completed"

ResultReportedForRunningTask ==
  /\ stPc = "done"
  /\ \E k \in 1..Len(stShards) :
        /\ stStoreAtList[stShards[k]] # Absent
        /\ stStatuses[k].ecsStatus = "RUNNING"
        /\ stStatuses[k].state = "failed"

\* C4: without --force the cancel command issues no StopTask call; with
\* --force, once it is done, every task the DescribeTasks response showed
\* PENDING or RUNNING has received exactly one StopTask call and every task it
\* showed STOPPED or DEPROVISIONING, or did not show, none.
CancelStopsOnlyWithForce ==
  /\ ~cnForce => \A k \in 1..Len(calls) : calls[k].op # "StopTask"
  /\ (cnForce /\ cnPc = "done") =>
        \A k \in 1..Len(cnManifest) :
           LET a == cnManifest[k]
           IN IF a \in DOMAIN cnDescribed
              THEN /\ cnDescribed[a] \in {"PENDING", "RUNNING"} => StopCalls(a) = 1
                   /\ cnDescribed[a] \in {"STOPPED", "DEPROVISIONING"} => StopCalls(a) = 0
              ELSE StopCalls(a) = 0

ForcedCancelOfActiveAndStopped ==
  /\ cnForce
  /\ cnPc = "done"
  /\ \E a, b \in DOMAIN cnDescribed :
        /\ cnDescribed[a] = "RUNNING"
        /\ cnDescribed[b] = "STOPPED"
        /\ StopCalls(a) = 1

HandlerStopCalls(a) ==
  Cardinality({k \in 1..Len(sigCalls) :
                 sigCalls[k].op = "StopTask" /\ sigCalls[k].arg = a})

\* no step deletes or replaces a result that is in the store
ResultsKept ==
  \A id \in DOMAIN s3Results :
     s3Results[id] # Absent => s3Results'[id] = s3Results[id]

UploadFailureCreatesNothing ==
  (\E k \in 1..Len(calls) : calls[k].op = "uploadDirectory" /\ ~calls[k].ok) =>
     /\ \A k \in 1..Len(calls) :
           calls[k].op \notin {"uploadShards", "RunTask", "uploadTasks"}
     /\ ~s3TestCode
     /\ ~s3Shards.present
     /\ ~s3Tasks.present
     /\ ecsTasks = <<>>
     /\ pc \in {"threw", "exited"}

ExitedAfterUploadFailure ==
  /\ pc = "exited"
  /\ exitCode = 1
  /\ runError.kind = "StoreError"
  /\ \E k \in 1..Len(calls) : calls[k].op = "uploadDirectory" /\ ~calls[k].ok

ReportedStates == {stStatuses[k].state : k \in 1..Len(stStatuses)}

\* C13: the overall status of a snapshot is completed when every shard is
\* terminal (completed or failed) and none failed, failed when every shard is
\* terminal and at least one failed, running when some shard is running, and
\* pending when no shard has started (every shard is pending or unknown).
OverallStatusRule ==
  (stPc = "done" /\ Len(stStatuses) > 0) =>
     /\ (ReportedStates \subseteq {"completed", "failed"} /\ "failed" \notin ReportedStates)
           => stOverall = "completed"
     /\ (ReportedStates \subseteq {"completed", "failed"} /\ "failed" \in ReportedStates)
           => stOverall = "failed"
     /\ "running" \in ReportedStates => stOverall = "running"
     /\ ReportedStates \subseteq {"pending", "unknown"} => stOverall = "pending"

RunningWithOneShardFailed ==
  /\ stPc = "done"
  /\ ReportedStates = {"failed", "running"}
  /\ stOverall = "running"

\* C14: a watch stops by itself exactly when a poll has returned a terminal
\* overall status: a terminal status is only ever the last one observed and
\* ends the loop at once, and while the last status observed is pending or
\* running the loop is sleeping or polling again, unless SIGINT (exit 0) or
\* a failed snapshot (exit 1) ended the process.
WatchStopsOnlyOnTerminal ==
  stWatch =>
     /\ \A k \in 1..Len(stObserved) : Terminal(stObserved[k]) => k = Len(stObserved)
     /\ (stObserved # <<>> /\ Terminal(stObserved[Len(stObserved)])) => stPc = "done"
     /\ stPc = "done" => (stObserved # <<>> /\ Terminal(stObserved[Len(stObserved)]))
     /\ (stObserved # <<>> /\ ~Terminal(stObserved[Len(stObserved)]))
           => stPc \in {"sleep", "loadShards", "listResults", "live", "exited"}
     /\ stPc = "exited" => stExit \in {0, 1}

WatchStoppedAfterSeveralPolls ==
  /\ stWatch
  /\ stPc = "done"
  /\ Len(stObserved) = MaxPolls
  /\ stObserved[1] \in {"pending", "running"}
  /\ Terminal(stObserved[MaxPolls])

\* the snapshot could not use live ECS state: tasks.json could not be read or
\* the DescribeTasks query failed
LiveStateUnavailable ==
  \E k \in 1..Len(calls) :
     calls[k].op \in {"downloadTasks", "DescribeTasks"} /\ ~calls[k].ok

\* C15: whenever the snapshot could not use live ECS state, gatherStatus has
\* still returned a snapshot (the command has not failed) and the snapshot is
\* flagged as store-only: hasTaskArns is false.
StoreOnlySnapshotFlagged ==
  LiveStateUnavailable =>
     /\ stPc = "done"
     /\ stExit = NoExit
     /\ ~stHasTaskArns

\* C16: for a run without tasks.json in the store the cancel command, with or
\* without --force, ends with exit status 1 right after the failed load: it
\* issues no DescribeTasks and no StopTask call.
CancelUnsupportedWithoutManifest ==
  (cnPc # "idle" /\ ~s3Tasks.present) =>
     /\ \A k \in 1..Len(calls) : calls[k].op \notin {"DescribeTasks", "StopTask"}
     /\ cnPc \in {"loadTasks", "exited"}
     /\ cnPc = "exited" => (cnExit = 1 /\ calls = <<Call("downloadTasks", 0, FALSE)>>)

ForcedCancelRefusedWithTasksRunning ==
  /\ cnPc = "exited"
  /\ cnExit = 1
  /\ cnForce
  /\ ~s3Tasks.present
  /\ \E a \in Arns : ecsTasks[a].lastStatus = "RUNNING"

\* C17: when a forced cancel is done, every active task has received its
\* StopTask call whether or not earlier ones were rejected, stopped + errors
\* is the number of active tasks, and the number reported as already stopped
\* is the number of ARNs of tasks.json that were not active.
CancelCountsPartitionManifest ==
  (cnForce /\ cnPc = "done") =>
     /\ \A k \in 1..Len(cnActive) : StopCalls(cnActive[k]) = 1
     /\ cnStopped + cnErrors = Len(cnActive)
     /\ cnAlreadyStopped = Len(cnManifest) - Len(cnActive)

\* C18: for a run id without shards.json in the store, the status command
\* fails with 'Run not found' (exit status 1) right after the failed load: no
\* result listing, no read of tasks.json and no DescribeTasks call is issued.
RunNotFoundWithoutManifest ==
  (stPc # "idle" /\ ~s3Shards.present) =>
     /\ \A k \in 1..Len(calls) :
           calls[k].op \notin {"listResults", "downloadTasks", "DescribeTasks"}
     /\ stPc \in {"loadShards", "exited"}
     /\ stPc = "exited" => /\ stError = "Run not found"
                           /\ stExit = 1
                           /\ calls = <<Call("downloadShards", 0, FALSE)>>

StatusOfUnknownRunFailed ==
  /\ stPc = "exited"
  /\ ~s3Shards.present
  /\ stError = "Run not found"

\* C19: for a non-empty file list and K >= 1, createShards returns exactly
\* min(K, number of files) shards, totalShards is that number, and the shard
\* at position i (from 0) has id i.
ShardCountAndIds ==
  (shResult # NotSharded /\ Len(shFiles) > 0 /\ shCount >= 1) =>
     LET expected == IF shCount < Len(shFiles) THEN shCount ELSE Len(shFiles)
     IN /\ shResult.error = "none"
        /\ Len(shResult.shards) = expected
        /\ shResult.totalShards = expected
        /\ \A n \in 1..Len(shResult.shards) : shResult.shards[n].id = n - 1

ShardCountReducedToFileCount ==
  /\ shResult # NotSharded
  /\ shResult.error = "none"
  /\ Len(shFiles) = 2
  /\ shCount = MaxShards + 1
  /\ Len(shResult.shards) = 2
  /\ shResult.shards[2].id = 1

InvalidInputRejected ==
  shResult # NotSharded =>
     /\ shCount < 1 =>
          /\ shResult.error = "Shard count must be at least 1"
          /\ shResult.shards = <<>>
     /\ (shCount >= 1 /\ Len(shFiles) = 0) =>
          /\ shResult.error = "Cannot create shards from empty file list"
          /\ shResult.shards = <<>>

EmptyFileListRejected ==
  /\ shResult # NotSharded
  /\ shCount = 2
  /\ shFiles = <<>>
  /\ shResult.error = "Cannot create shards from empty file list"

\* the reference LPT assignment by file size: the largest remaining file (of
\* equal ones, the first of the list) goes to the shard of smallest total size
\* (of equal ones, the one of lowest id)
RECURSIVE LptBySize(_, _, _)
LptBySize(files, remaining, sh) ==
  IF remaining = {} THEN sh
  ELSE LET k == CHOOSE k \in remaining :
                  \A j \in remaining :
                     \/ files[j].size < files[k].size
                     \/ files[j].size = files[k].size /\ k <= j
           n == CHOOSE n \in 1..Len(sh) :
                  \A m \in 1..Len(sh) :
                     \/ sh[n].totalSize < sh[m].totalSize
                     \/ sh[n].totalSize = sh[m].totalSize /\ sh[n].id <= sh[m].id
       IN LptBySize(files, remaining \ {k},
                    [sh EXCEPT ![n] = [id |-> @.id,
                                       files |-> Append(@.files, files[k]),
                                       totalSize |-> @.totalSize + files[k].size]])

\* C22: under the balanced strategy the shards createShards returns hold
\* exactly the files, in the order and with the total size, of the greedy LPT
\* assignment by descending size with ties between shards going to the lowest
\* shard id.
BalancedIsGreedyLpt ==
  (shResult # NotSharded /\ shResult.error = "none" /\ shStrategy = "balanced") =>
     LET reference ==
           LptBySize(shFiles, 1..Len(shFiles),
                     [n \in 1..shResult.totalShards |->
                        [id |-> n - 1, files |-> <<>>, totalSize |-> 0]])
     IN /\ Len(shResult.shards) = Len(reference)
        /\ \A n \in 1..Len(reference) :
              /\ shResult.shards[n].id = reference[n].id
              /\ shResult.shards[n].files = reference[n].files
              /\ shResult.shards[n].totalSize = reference[n].totalSize

BalancedTieGoesToLowestShard ==
  /\ shResult # NotSharded
  /\ shResult.error = "none"
  /\ shStrategy = "balanced"
  /\ shCount = 2
  /\ Len(shFiles) = 3
  /\ 0 < shFiles[1].size
  /\ shFiles[1].size < shFiles[2].size
  /\ shFiles[2].size = shFiles[3].size
  /\ shResult.shards[1].files = <<shFiles[2], shFiles[1]>>
  /\ shResult.shards[2].files = <<shFiles[3]>>

\* the estimates of the files of a shard, in the order they were assigned
ShardEstimates(shard) ==
  [k \in 1..Len(shard.files) |-> shard.files[k].estimatedDuration]

\* the example: five files with estimates 10, 5, 2, 2, 1 sharded in two by
\* duration
LptExampleSharded ==
  /\ shResult # NotSharded
  /\ shStrategy = "duration-based"
  /\ shCount = 2
  /\ Len(shFiles) = 5
  /\ [k \in 1..5 |-> shFiles[k].estimatedDuration] = <<10, 5, 2, 2, 1>>

\* C23 (as stated): the example gives shard 0 = {10, 1} of total 11 and
\* shard 1 = {5, 2, 2} of total 9, a balance score of 9/11.
LptExampleAsStated ==
  LptExampleSharded =>
     /\ ShardEstimates(shResult.shards[1]) = <<10, 1>>
     /\ shResult.shards[1].estimatedDuration = 11
     /\ ShardEstimates(shResult.shards[2]) = <<5, 2, 2>>
     /\ shResult.shards[2].estimatedDuration = 9
     /\ shResult.balanceScore = <<9, 11>>

\* C23 (amended): the example gives shard 0 = {10} of total 10 and
\* shard 1 = {5, 2, 2, 1} of total 10, a balance score of 10/10 = 1.
LptExampleResult ==
  LptExampleSharded =>
     /\ shResult.error = "none"
     /\ Len(shResult.shards) = 2
     /\ ShardEstimates(shResult.shards[1]) = <<10>>
     /\ shResult.shards[1].estimatedDuration = 10
     /\ ShardEstimates(shResult.shards[2]) = <<5, 2, 2, 1>>
     /\ shResult.shards[2].estimatedDuration = 10
     /\ shResult.balanceScore = <<10, 10>>

LptExampleReached ==
  /\ LptExampleSharded
  /\ shResult.shards[2].estimatedDuration = 10

NoEstimates(files) ==
  \A k \in 1..Len(files) : files[k].estimatedDuration = NoDuration

\* C24: when no file carries a duration estimate, the duration-based strategy
\* returns, shard by shard, the files the balanced strategy returns for the
\* same file list and shard count.
DurationFallsBackToBalanced ==
  (/\ shResult # NotSharded
   /\ shResult.error = "none"
   /\ shStrategy = "duration-based"
   /\ NoEstimates(shFiles)) =>
     LET balanced == createShards(shFiles, shCount, "balanced").shards
     IN /\ Len(shResult.shards) = Len(balanced)
        /\ \A n \in 1..Len(balanced) :
              /\ shResult.shards[n].id = balanced[n].id
              /\ shResult.shards[n].files = balanced[n].files

DurationFallbackSpreadsBySize ==
  /\ shResult # NotSharded
  /\ shResult.error = "none"
  /\ shStrategy = "duration-based"
  /\ NoEstimates(shFiles)
  /\ Len(shFiles) = 3
  /\ shCount = 2
  /\ shFiles[1].size < shFiles[2].size
  /\ shFiles[2].size < shFiles[3].size
  /\ shResult.shards[1].files = <<shFiles[3]>>
  /\ shResult.shards[2].files = <<shFiles[2], shFiles[1]>>

SameDurations(sh) ==
  \A n, m \in 1..Len(sh) : sh[n].estimatedDuration = sh[m].estimatedDuration

SameFileCounts(sh) ==
  \A n, m \in 1..Len(sh) : Len(sh[n].files) = Len(sh[m].files)

\* the score <<numerator, denominator>> is a number between 0 and 1
InUnitInterval(score) ==
  /\ score[2] > 0
  /\ 0 <= score[1]
  /\ score[1] <= score[2]

\* C25 (as stated): the balance score lies in [0, 1] and is 1 exactly when all
\* shards have the same estimatedDuration.
BalanceScoreOneIffSameDurations ==
  (shResult # NotSharded /\ shResult.error = "none") =>
     /\ InUnitInterval(shResult.balanceScore)
     /\ (shResult.balanceScore[1] = shResult.balanceScore[2])
           <=> SameDurations(shResult.shards)

\* C25 (amended): the balance score lies in [0, 1] and is 1 exactly when all
\* shards have the same estimatedDuration and, if that duration is 0, also
\* the same number of files.
BalanceScoreOneIffEven ==
  (shResult # NotSharded /\ shResult.error = "none") =>
     /\ InUnitInterval(shResult.balanceScore)
     /\ (shResult.balanceScore[1] = shResult.balanceScore[2])
           <=> /\ SameDurations(shResult.shards)
               /\ shResult.shards[1].estimatedDuration = 0
                     => SameFileCounts(shResult.shards)

UnevenCountsWithoutDurations ==
  /\ shResult # NotSharded
  /\ shResult.error = "none"
  /\ Len(shResult.shards) = 2
  /\ shResult.shards[1].estimatedDuration = 0
  /\ shResult.shards[2].estimatedDuration = 0
  /\ Len(shResult.shards[1].files) = 2
  /\ Len(shResult.shards[2].files) = 1
  /\ shResult.balanceScore = <<1, 2>>

\* the files at the indices i (from 0) with i mod shardCount = shard, in the
\* order of the list
FilesOfResidue(files, shardCount, shard) ==
  LET count == Cardinality({k \in 1..Len(files) : (k - 1) % shardCount = shard})
  IN [j \in 1..count |-> files[shard + (j - 1) * shardCount + 1]]

\* C26: under the round-robin strategy the shard of id s holds exactly the
\* files whose index i in the file list satisfies i mod K' = s, in the order
\* of the list.
RoundRobinByIndex ==
  (shResult # NotSharded /\ shResult.error = "none" /\ shStrategy = "round-robin") =>
     \A n \in 1..Len(shResult.shards) :
        shResult.shards[n].files =
           FilesOfResidue(shFiles, shResult.totalShards, shResult.shards[n].id)

SixFilesOverThreeShards ==
  /\ shResult # NotSharded
  /\ shStrategy = "round-robin"
  /\ Len(shFiles) = 6
  /\ shCount = 3
  /\ shResult.shards[1].files = <<shFiles[1], shFiles[4]>>
  /\ shResult.shards[2].files = <<shFiles[2], shFiles[5]>>
  /\ shResult.shards[3].files = <<shFiles[3], shFiles[6]>>

\* C27: a result fetch is retried only after a transient failure: a shard
\* whose ShardResult does not exist in the store is fetched at most once, and
\* that one failed fetch records it as a failed shard at once.
MissingResultNeverRetried ==
  \A s \in RunShardIds :
     s3Results[s] = Absent =>
        /\ FetchCalls(s) <= 1
        /\ FetchCalls(s) = 1 => \E k \in 1..Len(failedShards) : failedShards[k] = s

\* C28: for maxAttempts >= 1, fn is invoked at most maxAttempts times and
\* never again after an attempt succeeded; the call returns the value of the
\* first successful attempt, or throws the error of the last attempt after
\* exactly maxAttempts failed attempts.
RetryUntilSuccessOrExhausted ==
  (rtPc # "idle" /\ rtOpts.maxAttempts >= 1) =>
     /\ Len(rtOutcomes) <= rtOpts.maxAttempts
     /\ \A k \in 1..(Len(rtOutcomes) - 1) : ~rtOutcomes[k]
     /\ (Len(rtOutcomes) > 0 /\ rtOutcomes[Len(rtOutcomes)]) =>
           /\ rtPc = "done"
           /\ rtResult = [kind |-> "returned", value |-> Len(rtOutcomes)]
     /\ (rtPc = "done" /\ rtResult.kind = "returned") =>
           /\ Len(rtOutcomes) > 0
           /\ rtOutcomes[Len(rtOutcomes)]
     /\ (rtPc = "done" /\ rtResult.kind = "threw") =>
           /\ Len(rtOutcomes) = rtOpts.maxAttempts
           /\ \A k \in 1..Len(rtOutcomes) : ~rtOutcomes[k]
           /\ rtResult.value = rtOpts.maxAttempts
     /\ rtPc = "done" => rtResult.kind \in {"returned", "threw"}

RetryThrewLastErrorAfterThreeAttempts ==
  /\ rtPc = "done"
  /\ rtOpts.maxAttempts = 3
  /\ rtOutcomes = <<FALSE, FALSE, FALSE>>
  /\ rtResult = [kind |-> "threw", value |-> 3]
  /\ Len(rtDelays) = 2

\* C29 (as stated): no delay withRetry waits exceeds maxDelayMs.
RetryDelayWithinMaxDelay ==
  \A k \in 1..Len(rtDelays) :
     rtDelays[k][1] <= rtOpts.maxDelayMs * rtDelays[k][2]

\* C29 (amended): no delay withRetry waits exceeds 1.25 * maxDelayMs, the cap
\* plus the jitter of at most 25%.
RetryDelayWithinMaxDelayPlusJitter ==
  \A k \in 1..Len(rtDelays) :
     /\ rtDelays[k][2] > 0
     /\ 0 <= rtDelays[k][1]
     /\ 4 * rtDelays[k][1] <= 5 * rtOpts.maxDelayMs * rtDelays[k][2]

RetryWaitedLongerThanMaxDelay ==
  /\ rtPc = "sleep"
  /\ rtOpts.maxDelayMs > 0
  /\ rtOpts.baseDelayMs > rtOpts.maxDelayMs
  /\ rtDelays[Len(rtDelays)][1] > rtOpts.maxDelayMs * rtDelays[Len(rtDelays)][2]

\* the total of one count (passed, failed or skipped) over the results the
\* store holds for a set of shards
RECURSIVE StoredTotal(_, _)
StoredTotal(ids, count) ==
  IF ids = {} THEN 0
  ELSE LET s == CHOOSE s \in ids : TRUE
           r == s3Results[s]
           n == CASE count = "passed" -> r.passed
                  [] count = "failed" -> r.failed
                  [] count = "skipped" -> r.skipped
       IN n + StoredTotal(ids \ {s}, count)

\* C30: in every RunSummary that ECSBackend.run returns, passed, failed and
\* skipped are the sums of those counts over the ShardResults of the K shards,
\* and totalTests is passed + failed + skipped.
SummaryTotalsAreSums ==
  summary.present =>
     /\ Len(summary.results) = Len(shards)
     /\ \A s \in RunShardIds : s3Results[s] # Absent
     /\ summary.passed = StoredTotal(RunShardIds, "passed")
     /\ summary.failed = StoredTotal(RunShardIds, "failed")
     /\ summary.skipped = StoredTotal(RunShardIds, "skipped")
     /\ summary.totalTests = summary.passed + summary.failed + summary.skipped

SummaryOverTwoShardsWithSkipped ==
  /\ summary.present
  /\ Len(shards) = 2
  /\ summary.passed = 3
  /\ summary.failed = 1
  /\ summary.skipped = 1
  /\ summary.totalTests = 5

\* C31: two runs started concurrently on the same bucket have distinct run
\* ids and never write the same store key.
ConcurrentRunsWriteDisjointKeys ==
  /\ (isoRunId[1] # NoRunId /\ isoRunId[2] # NoRunId) => isoRunId[1] # isoRunId[2]
  /\ isoKeys[1] \cap isoKeys[2] = {}

\* C32: a worker that has exited has uploaded exactly one ShardResult, under
\* the key of its own shard id; when its test execution crashed, that result
\* counts every file of the shard as failed.
WorkerUploadsOneResult ==
  wkPc = "exited" =>
     /\ Len(wkUploads) = 1
     /\ wkUploads[1].shard = wkShardId
     /\ wkRunnerError => /\ wkUploads[1].result.failed = wkFileCount
                         /\ wkUploads[1].result.passed = 0

\* C33: when the run command's process has ended, every task that was
\* launched is stopped (so that a poll could have observed it stopped) or has
\* been sent a StopTask call, by the run or by its SIGINT handler.
NoTaskLeftOrphaned ==
  pc = "exited" =>
     \A a \in Arns :
        \/ ecsTasks[a].lastStatus \in {"STOPPED", "EXPIRED"}
        \/ StopCalls(a) >= 1
        \/ HandlerStopCalls(a) >= 1

FetchIssued == \E k \in 1..Len(calls) : calls[k].op = "downloadResult"

\* a successful poll that found every launched task STOPPED precedes call k
AllStoppedPolledBefore(k) ==
  \E j \in 1..(k - 1) :
     /\ calls[j].op = "DescribeTasks"
     /\ calls[j].ok
     /\ calls[j].arg = Len(taskArns)

\* the step that issues the first result fetch is taken with no launched task
\* still pending or running
FirstFetchWithAllTerminal ==
  (~FetchIssued /\ FetchIssued') =>
     \A a \in Arns : ecsTasks[a].lastStatus \in {"STOPPED", "EXPIRED"}

\* C34: every result fetch comes after a poll that observed all launched
\* tasks stopped (the deadline never leads to a fetch), and the first fetch is
\* never issued while a task is pending or running.
AggregationOnlyAfterAllTerminal ==
  /\ [](\A k \in 1..Len(calls) :
          calls[k].op = "downloadResult" =>
             /\ AllStoppedPolledBefore(k)
             /\ elapsed <= TimeoutTicks)
  /\ [][FirstFetchWithAllTerminal]_vars

AggregationBeganAfterWaiting ==
  /\ FetchIssued
  /\ Len(taskArns) = 2
  /\ \E j \in 1..Len(calls) :
        /\ calls[j].op = "DescribeTasks"
        /\ calls[j].ok
        /\ calls[j].arg = 1

\* C35: once waitForCompletion is polling it ends, by returning after a poll
\* that found all tasks stopped or by throwing after the deadline, whatever the
\* tasks do.
PollingTerminates ==
  (pc = "poll") ~> (pc \notin {"poll", "timeoutStop"})

PollingEndedByDeadlineWithUndescribedTask ==
  /\ pc = "threw"
  /\ runError.kind = "Timeout"
  /\ \E a \in Arns : ecsTasks[a].lastStatus = "EXPIRED"
  /\ \E a \in Arns : ecsTasks[a].lastStatus = "PENDING"

\* ---------------------------------------------------------------- C36
\* the RunTaskCommand calls of the run, in the order they were issued
LaunchCalls == SelectSeq(calls, LAMBDA c : c.op = "RunTask")

\* C36: the launch loop issues its RunTask calls one after the other in
\* ascending shard order, the j-th call for the j-th shard of the plan and
\* only after the calls before it succeeded, never two for one shard; the
\* j-th accumulated task ARN is the task of shard j, and once every launch
\* has succeeded exactly K calls were made
LaunchesInShardOrder ==
  /\ Len(LaunchCalls) <= Len(shards)
  /\ \A j \in 1..Len(LaunchCalls) :
       /\ LaunchCalls[j].arg = shards[j]
       /\ j < Len(LaunchCalls) => LaunchCalls[j].ok
  /\ \A j \in 1..(Len(LaunchCalls) - 1) :
       LaunchCalls[j].arg < LaunchCalls[j + 1].arg
  /\ \A j, k \in 1..Len(LaunchCalls) :
       j # k => LaunchCalls[j].arg # LaunchCalls[k].arg
  /\ Len(taskArns) = Cardinality({j \in 1..Len(LaunchCalls) : LaunchCalls[j].ok})
  /\ \A j \in 1..Len(taskArns) : ecsTasks[taskArns[j]].shard = shards[j]
  /\ pc \in {"persistTasks", "poll", "aggregate"} =>
       /\ Len(LaunchCalls) = Len(shards)
       /\ \A j \in 1..Len(LaunchCalls) : LaunchCalls[j].ok

AllShardsLaunched ==
  /\ pc = "persistTasks"
  /\ Len(shards) = MaxShards
  /\ Len(LaunchCalls) = MaxShards
  /\ Len(taskArns) = MaxShards

\* ---------------------------------------------------------------- C37
PersistCallLogged == Len(calls') = Len(calls) + 1 /\ calls'[Len(calls')].op = "uploadTasks"

PersistFailed == \E k \in 1..Len(calls) : calls[k].op = "uploadTasks" /\ ~calls[k].ok

\* the run's own state and the tasks after the persist step, whatever the
\* upload answered
StateAfterPersist ==
  /\ runVars' = <<"poll", shards, taskArns, i, attempt, 0, results, failedShards,
                  runError, summary, exitCode, activeAtDeadline>>
  /\ ecsTasks' = ecsTasks
  /\ s3Results' = s3Results
  /\ s3Shards' = s3Shards

\* C37: a failed upload of tasks.json is swallowed: the step that logs the
\* upload leaves the run in the polling phase with the task ARNs it holds in
\* memory and no error, the same run state as after a successful upload (only
\* tasks.json itself differs), and a run whose upload failed never carries an
\* error of that upload
PersistFailureIsNonFatal ==
  /\ [](PersistFailed => (runError.kind # "PersistError" /\ ~s3Tasks.present))
  /\ [][PersistCallLogged =>
          /\ StateAfterPersist
          /\ IF calls'[Len(calls')].ok
               THEN s3Tasks' = [present |-> TRUE, taskArns |-> taskArns]
               ELSE s3Tasks' = s3Tasks]_vars

RunPassedWithoutTaskManifest ==
  /\ PersistFailed
  /\ ~s3Tasks.present
  /\ pc = "exited"
  /\ exitCode = 0
  /\ Len(results) = MaxShards

\* ---------------------------------------------------------------- C38
\* C38: tasks.json is written once, after the whole launch loop: whenever it
\* exists, shards.json exists too and tasks.json lists one task ARN for each
\* shard of shards.json, the j-th being the task launched for the j-th shard
TaskManifestNeverPartial ==
  s3Tasks.present =>
    /\ s3Shards.present
    /\ Len(s3Tasks.taskArns) = Len(s3Shards.shards)
    /\ \A j \in 1..Len(s3Tasks.taskArns) :
         /\ s3Tasks.taskArns[j] \in 1..Len(ecsTasks)
         /\ ecsTasks[s3Tasks.taskArns[j]].shard = s3Shards.shards[j]

TaskManifestOfTwoShardsStored ==
  /\ s3Tasks.present
  /\ Len(s3Tasks.taskArns) = MaxShards
  /\ Len(s3Shards.shards) = MaxShards

\* ---------------------------------------------------------------- C39
\* every shard of the run has its task and each task has stopped
EveryTaskStopped ==
  /\ s3Shards.present
  /\ Len(ecsTasks) = Len(s3Shards.shards)
  /\ \A a \in 1..Len(ecsTasks) : ecsTasks[a].lastStatus \in {"STOPPED", "EXPIRED"}

SomeShardWithoutResult ==
  \E k \in 1..Len(s3Shards.shards) : s3Results[s3Shards.shards[k]] = Absent

WatchOver == stPc \in {"done", "exited"}

\* C39: once every task of the run has stopped, one of them without having
\* written its ShardResult, the watch eventually leaves its loop
WatchExitsOnceRunIsOver ==
  (EveryTaskStopped /\ SomeShardWithoutResult) ~> WatchOver

\* ---------------------------------------------------------------- C40
\* the store and backend operations gatherStatus issues: downloadJSON, list,
\* DescribeTasksCommand
StatusReadOps == {"downloadShards", "listResults", "downloadTasks", "DescribeTasks"}

\* C40: status only reads: every call a status or watch poll issues is a
\* download, a listing or a DescribeTasks, and no step of the command (a poll
\* step, the sleep, Ctrl+C) changes a store object or the state of a task
StatusIsReadOnly ==
  /\ [](\A k \in 1..Len(calls) : calls[k].op \in StatusReadOps)
  /\ [][statusVars' # statusVars =>
          /\ s3TestCode' = s3TestCode
          /\ s3Shards' = s3Shards
          /\ s3Tasks' = s3Tasks
          /\ s3Results' = s3Results
          /\ ecsTasks' = ecsTasks]_vars

WatchPolledTwiceDuringRun ==
  /\ Len(stObserved) = MaxPolls
  /\ s3Tasks.present
  /\ \E a \in 1..Len(ecsTasks) : ecsTasks[a].lastStatus = "RUNNING"
  /\ \E id \in 0..(MaxShards - 1) : s3Results[id] # Absent
  /\ \E k \in 1..Len(calls) : calls[k].op = "DescribeTasks" /\ calls[k].ok

====
